---- MODULE Spec2Model ----
(***************************************************************************)
(* EcoGrid+ control plane: the in-memory structures of backend/app.py (AVL *)
(* index, energy graph, FIFO event queue, priority heap, route cache) and  *)
(* the handlers that mutate them.                                          *)
(*                                                                         *)
(* Numbers.  Loads and capacities are integers; the inputs are multiples   *)
(* of 5, so that 0.8, 0.9 and 0.95 of a capacity and 0.2 of an input load  *)
(* are whole numbers.  Efficiencies are percentages (0.85 is 85).  A       *)
(* comparison  load / capacity > 0.9  is written  10*load > 9*capacity,    *)
(* which is the same for capacity > 0; a zero capacity raises              *)
(* ZeroDivisionError in the code and is modelled as that exception.        *)
(* Floating-point rounding is not modelled.                                *)
(***************************************************************************)
EXTENDS Integers, Sequences, FiniteSets, TLC

VARIABLES
    nodes,          \* EnergyGraph.nodes: node_id -> node record
    edges,          \* EnergyGraph.edges: node_id -> list of (neighbor, weight, line)
    lines,          \* the line_data dicts; an adjacency entry refers to one by index
    node_count,     \* EnergyGraph.node_count
    edge_count,     \* EnergyGraph.edge_count
    root,           \* AVLTree.root
    size,           \* AVLTree.size
    rotations,      \* AVLTree.rotations
    heap,           \* PriorityHeap.heap: entries (priority, counter, event)
    counter,        \* PriorityHeap.counter
    queue,          \* EventQueue.queue
    processed,      \* EventQueue.processed
    dropped,        \* EventQueue.dropped
    app_state,      \* app_state: the overload counters
    routing_cache,  \* EnergyRouter.routing_cache: cache key -> result
    route_history,  \* EnergyRouter.route_history
    bplus_tree,     \* the BPlusTree: its nodes, root and leaf_head
    inflight,       \* the handlers that are part-way through (their local variables)
    last            \* what the last operation returned (observation only)

graphVars == <<nodes, edges, lines, node_count, edge_count>>
avlVars == <<root, size, rotations>>
eventVars == <<heap, counter, queue, processed, dropped>>
routerVars == <<routing_cache, route_history>>
vars == <<nodes, edges, lines, node_count, edge_count, root, size, rotations,
          heap, counter, queue, processed, dropped, app_state,
          routing_cache, route_history, bplus_tree, inflight, last>>

(***************************************************************************)
(* Bounds and input sets                                                   *)
(***************************************************************************)
\* Node ids are strings; Python orders them "a" < "a_b" < "b_a" < "c" < "d".
NodeIds == {"a", "a_b", "b_a"}
Rank == [a |-> 1, a_b |-> 2, b_a |-> 3, c |-> 4, d |-> 5]
KeyLT(k1, k2) == Rank[k1] < Rank[k2]

\* The ids the handlers of Spec are called with.
CoreIds == {"a", "a_b"}

\* create_node requests: type, capacity, efficiency (percent).
Profiles ==
    { [type |-> "consumer", capacity |-> 100, efficiency |-> 90],
      [type |-> "transformer", capacity |-> 200, efficiency |-> 70],
      [type |-> "consumer", capacity |-> 0, efficiency |-> 90] }
\* update_load requests: 90 is exactly 0.9 of capacity 100
Loads == {90, 120}
\* add_edge requests: distance, resistance.
LineParams == { [distance |-> 1, resistance |-> 1] }

\* Bounds of Spec: the counters of the program never exceed them.
MaxInserts == 3      \* AVLTree.size (inserts and updates so far)
MaxNodeCount == 2    \* EnergyGraph.node_count
MaxEdges == 1        \* number of add_edge calls
MaxCounter == 2      \* PriorityHeap.counter
MaxDetected == 2     \* app_state.overloads_detected
max_size == 2        \* EventQueue max_size (10000 by default in the code)

Max2(x, y) == IF x >= y THEN x ELSE y
Min2(x, y) == IF x <= y THEN x ELSE y

(***************************************************************************)
(* data_structures/avl_tree.py                                             *)
(***************************************************************************)
Nil == [nil |-> TRUE]

AVLNode(key, data) ==
    [nil |-> FALSE, key |-> key, data |-> data, left |-> Nil, right |-> Nil,
     height |-> 1, balance_factor |-> 0]

get_height(node) == IF node.nil THEN 0 ELSE node.height

get_balance(node) ==
    IF node.nil THEN 0 ELSE get_height(node.left) - get_height(node.right)

update_height(node) ==
    IF node.nil THEN node
    ELSE [node EXCEPT
            !.height = 1 + Max2(get_height(node.left), get_height(node.right)),
            !.balance_factor = get_balance(node)]

rotate_right(z) ==
    LET y == z.left
        T3 == y.right
        z2 == update_height([z EXCEPT !.left = T3])
    IN update_height([y EXCEPT !.right = z2])

rotate_left(z) ==
    LET y == z.right
        T2 == y.left
        z2 == update_height([z EXCEPT !.right = T2])
    IN update_height([y EXCEPT !.left = z2])

\* the tail of _insert_recursive without the rotations
rebalance_none(n0, key, rots) == [node |-> update_height(n0), rotations |-> rots]

\* The tail of _insert_recursive: update the height, then the four rotation
\* cases.  rots counts the rotations done so far (AVLTree.rotations += 1).
rebalance(n0, key, rots) ==
    LET node == update_height(n0)
        balance == get_balance(node)
    IN IF balance > 1 /\ KeyLT(key, node.left.key)
       THEN [node |-> rotate_right(node), rotations |-> rots + 1]
       ELSE IF balance < -1 /\ KeyLT(node.right.key, key)
       THEN [node |-> rotate_left(node), rotations |-> rots + 1]
       ELSE IF balance > 1 /\ KeyLT(node.left.key, key)
       THEN [node |-> rotate_right([node EXCEPT !.left = rotate_left(node.left)]),
             rotations |-> rots + 2]
       ELSE IF balance < -1 /\ KeyLT(key, node.right.key)
       THEN [node |-> rotate_left([node EXCEPT !.right = rotate_right(node.right)]),
             rotations |-> rots + 2]
       ELSE [node |-> node, rotations |-> rots]

RECURSIVE insert_recursive(_, _, _)
insert_recursive(node, key, data) ==
    IF node.nil THEN [node |-> AVLNode(key, data), rotations |-> 0]
    ELSE IF KeyLT(key, node.key)
    THEN LET r == insert_recursive(node.left, key, data)
         IN rebalance([node EXCEPT !.left = r.node], key, r.rotations)
    ELSE IF KeyLT(node.key, key)
    THEN LET r == insert_recursive(node.right, key, data)
         IN rebalance([node EXCEPT !.right = r.node], key, r.rotations)
    ELSE [node |-> [node EXCEPT !.data = data], rotations |-> 0]

\* AVLTree as a value: [root, size, rotations].
avl_insert(avl, key, data) ==
    LET r == insert_recursive(avl.root, key, data)
    IN [root |-> r.node, size |-> avl.size + 1,
        rotations |-> avl.rotations + r.rotations]

\* search returns the data, or None: <<data>> or <<>>.
RECURSIVE search_recursive(_, _)
search_recursive(node, key) ==
    IF node.nil THEN <<>>
    ELSE IF node.key = key THEN <<node.data>>
    ELSE IF KeyLT(key, node.key) THEN search_recursive(node.left, key)
    ELSE search_recursive(node.right, key)

RECURSIVE inorder_recursive(_)
inorder_recursive(node) ==
    IF node.nil THEN <<>>
    ELSE inorder_recursive(node.left)
         \o <<[key |-> node.key, data |-> node.data]>>
         \o inorder_recursive(node.right)

\* _find_overloaded divides current_load by capacity at every node.
\* _find_overloaded that also takes the nodes exactly at the threshold
RECURSIVE find_overloaded_inclusive(_, _, _)
find_overloaded_inclusive(node, num, den) ==
    IF node.nil THEN <<>>
    ELSE find_overloaded_inclusive(node.left, num, den)
         \o (IF den * node.data.current_load >= num * node.data.capacity
             THEN <<[key |-> node.key, data |-> node.data]>> ELSE <<>>)
         \o find_overloaded_inclusive(node.right, num, den)

\* _find_overloaded with threshold = num / den (load_ratio is left out of the
\* entries)
RECURSIVE find_overloaded(_, _, _)
find_overloaded(node, num, den) ==
    IF node.nil THEN <<>>
    ELSE find_overloaded(node.left, num, den)
         \o (IF den * node.data.current_load > num * node.data.capacity
             THEN <<[key |-> node.key, data |-> node.data]>> ELSE <<>>)
         \o find_overloaded(node.right, num, den)

RECURSIVE some_zero_capacity(_)
some_zero_capacity(node) ==
    IF node.nil THEN FALSE
    ELSE \/ node.data.capacity = 0
         \/ some_zero_capacity(node.left)
         \/ some_zero_capacity(node.right)

AVL == [root |-> root, size |-> size, rotations |-> rotations]
EmptyAVL == [root |-> Nil, size |-> 0, rotations |-> 0]

(***************************************************************************)
(* data_structures/bplus_tree.py                                           *)
(*                                                                         *)
(* The nodes are objects that refer to each other (children, next): the    *)
(* tree is the sequence of its BPlusNode objects in the order of their     *)
(* creation, and a reference is an index of that sequence; None is 0.      *)
(* "records" is the history of the pairs given to insert, no field of the  *)
(* class.  Positions of lists count from 1, those of the code from 0.      *)
(***************************************************************************)
\* BPlusTree(order=4)
bplus_order == 4

BPlusNode(is_leaf) ==
    [is_leaf |-> is_leaf, keys |-> <<>>, children |-> <<>>, values |-> <<>>,
     next |-> 0]

EmptyBPlus == [nodes |-> <<BPlusNode(TRUE)>>, root |-> 1, leaf_head |-> 1,
               records |-> {}]

\* list.insert: x becomes the element at position pos
InsertAt(seq, pos, x) == SubSeq(seq, 1, pos - 1) \o <<x>> \o SubSeq(seq, pos, Len(seq))

\* "while i >= 0 and key < node.keys[i]: i -= 1", from position i downwards
RECURSIVE scan_down(_, _, _)
scan_down(keys, i, key) ==
    IF i >= 1 /\ key < keys[i] THEN scan_down(keys, i - 1, key) ELSE i

\* "while i < len(node.keys) and key >= node.keys[i]: i += 1": the number of
\* keys that were passed
RECURSIVE scan_up(_, _, _)
scan_up(keys, i, key) ==
    IF i < Len(keys) /\ key >= keys[i + 1] THEN scan_up(keys, i + 1, key) ELSE i

\* _split_child of a leaf that leaves child.next as it was
split_child_unlinked(t, parent, index) ==
    LET child == t.nodes[parent].children[index]
        c == t.nodes[child]
        new_child == Len(t.nodes) + 1
        mid == bplus_order \div 2
    IN IF c.is_leaf
       THEN [t EXCEPT
               !.nodes = Append(
                   [@ EXCEPT
                      ![child] = [c EXCEPT !.keys = SubSeq(c.keys, 1, mid),
                                           !.values = SubSeq(c.values, 1, mid)],
                      ![parent] = [@ EXCEPT
                          !.keys = InsertAt(@, index, c.keys[mid + 1]),
                          !.children = InsertAt(@, index + 1, new_child)]],
                   [BPlusNode(TRUE) EXCEPT
                      !.keys = SubSeq(c.keys, mid + 1, Len(c.keys)),
                      !.values = SubSeq(c.values, mid + 1, Len(c.values)),
                      !.next = c.next])]
       ELSE [t EXCEPT
               !.nodes = Append(
                   [@ EXCEPT
                      ![child] = [c EXCEPT !.keys = SubSeq(c.keys, 1, mid),
                                           !.children = SubSeq(c.children, 1, mid + 1)],
                      ![parent] = [@ EXCEPT
                          !.keys = InsertAt(@, index, c.keys[mid + 1]),
                          !.children = InsertAt(@, index + 1, new_child)]],
                   [BPlusNode(FALSE) EXCEPT
                      !.keys = SubSeq(c.keys, mid + 2, Len(c.keys)),
                      !.children = SubSeq(c.children, mid + 2, Len(c.children))])]

\* _split_child(parent, index): the child at position index of parent is full.
\* A leaf keeps its first mid keys, the new leaf takes the rest and is chained
\* after it, and the first key of the new leaf goes up; of an internal node
\* the key in the middle goes up.
split_child(t, parent, index) ==
    LET child == t.nodes[parent].children[index]
        c == t.nodes[child]
        new_child == Len(t.nodes) + 1
        mid == bplus_order \div 2
    IN IF c.is_leaf
       THEN [t EXCEPT
               !.nodes = Append(
                   [@ EXCEPT
                      ![child] = [c EXCEPT !.keys = SubSeq(c.keys, 1, mid),
                                           !.values = SubSeq(c.values, 1, mid),
                                           !.next = new_child],
                      ![parent] = [@ EXCEPT
                          !.keys = InsertAt(@, index, c.keys[mid + 1]),
                          !.children = InsertAt(@, index + 1, new_child)]],
                   [BPlusNode(TRUE) EXCEPT
                      !.keys = SubSeq(c.keys, mid + 1, Len(c.keys)),
                      !.values = SubSeq(c.values, mid + 1, Len(c.values)),
                      !.next = c.next])]
       ELSE [t EXCEPT
               !.nodes = Append(
                   [@ EXCEPT
                      ![child] = [c EXCEPT !.keys = SubSeq(c.keys, 1, mid),
                                           !.children = SubSeq(c.children, 1, mid + 1)],
                      ![parent] = [@ EXCEPT
                          !.keys = InsertAt(@, index, c.keys[mid + 1]),
                          !.children = InsertAt(@, index + 1, new_child)]],
                   [BPlusNode(FALSE) EXCEPT
                      !.keys = SubSeq(c.keys, mid + 2, Len(c.keys)),
                      !.children = SubSeq(c.children, mid + 2, Len(c.children))])]

\* the child of node that _insert_non_full descends to, after the split of a
\* full child: [t, child]
descend(t, node, i, key) ==
    IF Len(t.nodes[t.nodes[node].children[i]].keys) = bplus_order - 1
    THEN [t |-> split_child(t, node, i),
          child |-> split_child(t, node, i).nodes[node].children[
                        IF key > split_child(t, node, i).nodes[node].keys[i]
                        THEN i + 1 ELSE i]]
    ELSE [t |-> t, child |-> t.nodes[node].children[i]]

\* _insert_non_full(node, key, value); insert_into goes on in the child
RECURSIVE insert_non_full(_, _, _, _)
RECURSIVE insert_into(_, _, _)
insert_into(d, key, value) == insert_non_full(d.t, d.child, key, value)

insert_non_full(t, node, key, value) ==
    IF t.nodes[node].is_leaf
    THEN [t EXCEPT
            !.nodes[node].keys =
                InsertAt(@, scan_down(@, Len(@), key) + 1, key),
            !.nodes[node].values =
                InsertAt(@, scan_down(t.nodes[node].keys, Len(t.nodes[node].keys),
                                      key) + 1, value)]
    ELSE insert_into(descend(t, node,
                             scan_down(t.nodes[node].keys, Len(t.nodes[node].keys),
                                       key) + 1, key),
                     key, value)

\* BPlusTree.insert: a full root gets a new root above it and is split
bplus_insert(t, key, value) ==
    IF Len(t.nodes[t.root].keys) = bplus_order - 1
    THEN insert_non_full(
             [split_child([t EXCEPT !.nodes = Append(@, [BPlusNode(FALSE) EXCEPT
                                                           !.children = <<t.root>>])],
                          Len(t.nodes) + 1, 1)
                 EXCEPT !.root = Len(t.nodes) + 1],
             Len(t.nodes) + 1, key, value)
    ELSE insert_non_full(t, t.root, key, value)

\* _find_leaf(key)
RECURSIVE find_leaf(_, _, _)
find_leaf(t, node, key) ==
    IF t.nodes[node].is_leaf THEN node
    ELSE find_leaf(t, t.nodes[node].children[scan_up(t.nodes[node].keys, 0, key) + 1],
                   key)

\* the loops of range_query from position i of the leaf node on
RECURSIVE range_scan(_, _, _, _, _, _)
range_scan(t, node, i, start_key, end_key, result) ==
    IF node = 0 THEN result
    ELSE IF i > Len(t.nodes[node].keys)
    THEN range_scan(t, t.nodes[node].next, 1, start_key, end_key, result)
    ELSE IF start_key <= t.nodes[node].keys[i] /\ t.nodes[node].keys[i] <= end_key
    THEN range_scan(t, node, i + 1, start_key, end_key,
                    Append(result, [key |-> t.nodes[node].keys[i],
                                    value |-> t.nodes[node].values[i]]))
    ELSE IF t.nodes[node].keys[i] > end_key THEN result
    ELSE range_scan(t, node, i + 1, start_key, end_key, result)

range_query(t, start_key, end_key) ==
    range_scan(t, find_leaf(t, t.root, start_key), 1, start_key, end_key, <<>>)

\* the loop of get_all_records from the leaf node on
RECURSIVE all_records(_, _)
all_records(t, node) ==
    IF node = 0 THEN <<>>
    ELSE [i \in 1..Len(t.nodes[node].keys) |->
             [key |-> t.nodes[node].keys[i], value |-> t.nodes[node].values[i]]]
         \o all_records(t, t.nodes[node].next)

get_all_records(t) == all_records(t, t.leaf_head)

(***************************************************************************)
(* data_structures/graph.py                                                *)
(***************************************************************************)
\* EnergyGraph as a value.
Graph == [nodes |-> nodes, edges |-> edges, lines |-> lines,
          node_count |-> node_count, edge_count |-> edge_count]
EmptyGraph == [nodes |-> <<>>, edges |-> [n \in NodeIds |-> <<>>], lines |-> <<>>,
               node_count |-> 0, edge_count |-> 0]

\* app.py calls add_node(..., current_load=...): the revision of graph.py that
\* takes the initial load.  The record is the one of graph.py's add_node.
add_node(g, node_id, node_type, capacity, efficiency, current_load) ==
    [g EXCEPT
       !.nodes = (node_id :> [type |-> node_type, capacity |-> capacity,
                              current_load |-> current_load,
                              efficiency |-> efficiency, status |-> "active",
                              voltage |-> 220, connections |-> 0]) @@ g.nodes,
       !.node_count = g.node_count + 1]

\* add_edge with a copy of line_data for the second direction
add_edge_copied_line(g, from_node, to_node, distance, resistance) ==
    LET weight == distance * resistance
        line_data == [distance |-> distance, resistance |-> resistance,
                      capacity |-> 1000, status |-> "active"]
        li == Len(g.lines) + 1
        e1 == [g.edges EXCEPT ![from_node] =
                 Append(@, [neighbor |-> to_node, weight |-> weight, line |-> li])]
        e2 == [e1 EXCEPT ![to_node] =
                 Append(@, [neighbor |-> from_node, weight |-> weight,
                            line |-> li + 1])]
    IN [g |-> [g EXCEPT !.edges = e2,
                        !.lines = Append(Append(g.lines, line_data), line_data),
                        !.edge_count = g.edge_count + 1],
        raised |-> FALSE]

\* add_edge appends to both adjacency lists, then counts the connections:
\* an endpoint that is not a node raises KeyError after the appends.
\* The result carries raised = TRUE in that case.
add_edge(g, from_node, to_node, distance, resistance) ==
    LET weight == distance * resistance
        line_data == [distance |-> distance, resistance |-> resistance,
                      capacity |-> 1000, status |-> "active"]
        li == Len(g.lines) + 1
        e1 == [g.edges EXCEPT ![from_node] =
                 Append(@, [neighbor |-> to_node, weight |-> weight, line |-> li])]
        e2 == [e1 EXCEPT ![to_node] =
                 Append(@, [neighbor |-> from_node, weight |-> weight, line |-> li])]
        g2 == [g EXCEPT !.edges = e2, !.lines = Append(g.lines, line_data)]
    IN IF from_node \notin DOMAIN g.nodes
       THEN [g |-> g2, raised |-> TRUE]
       ELSE LET n1 == [g2.nodes EXCEPT ![from_node].connections = @ + 1]
            IN IF to_node \notin DOMAIN g.nodes
               THEN [g |-> [g2 EXCEPT !.nodes = n1], raised |-> TRUE]
               ELSE [g |-> [g2 EXCEPT
                              !.nodes = [n1 EXCEPT ![to_node].connections = @ + 1],
                              !.edge_count = g.edge_count + 1],
                     raised |-> FALSE]

node_status(load, capacity) ==
    IF load > capacity THEN "overloaded"
    ELSE IF 10 * load > 9 * capacity THEN "warning"
    ELSE "active"

update_load(g, node_id, load) ==
    IF node_id \in DOMAIN g.nodes
    THEN [g EXCEPT !.nodes[node_id].current_load = load,
                   !.nodes[node_id].status = node_status(load, g.nodes[node_id].capacity)]
    ELSE g

\* the loop over self.edges[node] of detect_isolated_nodes
RECURSIVE bfs_edges(_, _, _, _)
bfs_edges(g, node, i, b) ==
    IF i > Len(g.edges[node]) THEN b
    ELSE IF g.edges[node][i].neighbor \notin b.visited
            /\ g.lines[g.edges[node][i].line].status = "active"
    THEN bfs_edges(g, node, i + 1,
                   [queue |-> Append(b.queue, g.edges[node][i].neighbor),
                    visited |-> b.visited \cup {g.edges[node][i].neighbor}])
    ELSE bfs_edges(g, node, i + 1, b)

\* "while queue" of detect_isolated_nodes: the nodes it has visited at the end
RECURSIVE bfs(_, _)
bfs(g, b) ==
    IF b.queue = <<>> THEN b.visited
    ELSE bfs(g, bfs_edges(g, Head(b.queue), 1,
                          [queue |-> Tail(b.queue), visited |-> b.visited]))

\* the nodes of the list detect_isolated_nodes returns
\* start_node = next(iter(self.nodes)) is the node that was created first; the
\* networks that ask for statistics are created in the order of the ids.
detect_isolated_nodes(g) ==
    IF DOMAIN g.nodes = {} THEN {}
    ELSE LET start_node == CHOOSE n \in DOMAIN g.nodes :
                               \A m \in DOMAIN g.nodes : n = m \/ KeyLT(n, m)
         IN (DOMAIN g.nodes)
                \ bfs(g, [queue |-> <<start_node>>, visited |-> {start_node}])

\* sum(n[field] for n in self.nodes.values()) over the nodes ids
RECURSIVE sum_nodes(_, _, _)
sum_nodes(g, ids, field) ==
    IF ids = {} THEN 0
    ELSE LET n == CHOOSE x \in ids : TRUE
         IN g.nodes[n][field] + sum_nodes(g, ids \ {n}, field)

\* utilization is the pair <<total_load, total_capacity>> of the quotient
get_network_stats(g) ==
    [node_count |-> g.node_count,
     edge_count |-> g.edge_count,
     total_load |-> sum_nodes(g, DOMAIN g.nodes, "current_load"),
     total_capacity |-> sum_nodes(g, DOMAIN g.nodes, "capacity"),
     utilization |-> IF sum_nodes(g, DOMAIN g.nodes, "capacity") > 0
                     THEN <<sum_nodes(g, DOMAIN g.nodes, "current_load"),
                            sum_nodes(g, DOMAIN g.nodes, "capacity")>>
                     ELSE <<0, 1>>,
     overloaded_nodes |->
         Cardinality({nid \in DOMAIN g.nodes : g.nodes[nid].status = "overloaded"}),
     isolated_nodes |-> Cardinality(detect_isolated_nodes(g))]

(***************************************************************************)
(* data_structures/event_queue.py and priority_heap.py                     *)
(***************************************************************************)
CRITICAL == 1
HIGH == 2
MEDIUM == 3

QueueEvent(event_type, node_id, data, priority) ==
    [event_type |-> event_type, node_id |-> node_id, data |-> data,
     priority |-> priority]

\* EventQueue as a value.  The deque has maxlen = max_size: appending to a full
\* deque discards the item at the other end.
EQ == [queue |-> queue, processed |-> processed, dropped |-> dropped]
enqueue(q, event) ==
    IF Len(q.queue) = max_size
    THEN [q EXCEPT !.dropped = q.dropped + 1,
                   !.queue = Append(Tail(q.queue), event)]
    ELSE [q EXCEPT !.queue = Append(q.queue, event)]

\* PriorityHeap as a value.  heap holds the entries in the order they were
\* pushed; heapq orders the tuples (priority, counter, event) and pops the least.
\* The field seq of an entry is not a field of the program: it is the rank of
\* the event among the pending events, in the order of their first push.
PH == [heap |-> heap, counter |-> counter]
EmptyPH == [heap |-> <<>>, counter |-> 0]

\* the greatest seq of the entries, 0 when there is none
RECURSIVE MaxSeq(_)
MaxSeq(entries) ==
    IF entries = <<>> THEN 0 ELSE Max2(Head(entries).seq, MaxSeq(Tail(entries)))

\* the entry pushed last stands for an event that was first pushed as seq
restamp(h, seq) == [h EXCEPT !.heap[Len(h.heap)].seq = seq]

\* the entries with seq renumbered 1, 2, ... in the same order
ranked(h) ==
    [h EXCEPT !.heap =
        [i \in 1..Len(h.heap) |->
            [h.heap[i] EXCEPT !.seq =
                Cardinality({j \in 1..Len(h.heap) : h.heap[j].seq <= h.heap[i].seq})]]]

\* the tuple comparison with the newest entry first among equal priorities
EntryLT_newest_first(e1, e2) ==
    \/ e1.priority < e2.priority
    \/ e1.priority = e2.priority /\ e1.counter > e2.counter

EntryLT(e1, e2) ==
    \/ e1.priority < e2.priority
    \/ e1.priority = e2.priority /\ e1.counter < e2.counter

heap_push(h, event_type, node_id, data, priority) ==
    [heap |-> Append(h.heap,
                     [priority |-> priority, counter |-> h.counter,
                      event |-> QueueEvent(event_type, node_id, data, priority),
                      seq |-> 1 + MaxSeq(h.heap)]),
     counter |-> h.counter + 1]

\* index of the entry heappop removes (the heap is not empty)
heap_min(h) ==
    CHOOSE i \in 1..Len(h.heap) :
        \A j \in 1..Len(h.heap) :
            j # i => \/ EntryLT(h.heap[i], h.heap[j])
                     \/ (~EntryLT(h.heap[j], h.heap[i]) /\ i < j)

RemoveAt(s, i) == SubSeq(s, 1, i - 1) \o SubSeq(s, i + 1, Len(s))

\* pop returns the event of the least entry and removes the entry.
heap_pop(h) ==
    LET i == heap_min(h)
    IN [event |-> h.heap[i].event, seq |-> h.heap[i].seq,
        h |-> [h EXCEPT !.heap = RemoveAt(h.heap, i)]]

(***************************************************************************)
(* graph.py: dijkstra, astar, find_alternative_routes                      *)
(*                                                                         *)
(* float('inf') and None are the empty sequence <<>>, a number d is <<d>>. *)
(***************************************************************************)
\* d < best, where best may be float('inf')
Before(d, best) == best = <<>> \/ d < best[1]

\* the tuple heappop removes: the least (number, node id)
pq_min(pq) ==
    CHOOSE t \in pq :
        \A u \in pq : u = t \/ t[1] < u[1] \/ (t[1] = u[1] /\ KeyLT(t[2], u[2]))

NoRoute == [path |-> <<>>, cost |-> <<>>, raised |-> FALSE]

\* the body of the loop over self.edges[current]; distances[neighbor] raises
\* KeyError for a neighbour that is not a node
relax_edge(g, st, distance, current, e) ==
    IF g.lines[e.line].status # "active" THEN st
    ELSE IF e.neighbor \notin DOMAIN g.nodes THEN [st EXCEPT !.raised = TRUE]
    ELSE IF Before(distance, st.distances[e.neighbor])
    THEN [st EXCEPT !.distances[e.neighbor] = <<distance>>,
                    !.previous[e.neighbor] = <<current>>,
                    !.pq = @ \cup {<<distance, e.neighbor>>}]
    ELSE st

RECURSIVE relax(_, _, _, _, _)
relax(g, st, current_dist, current, i) ==
    IF i > Len(g.edges[current]) \/ st.raised THEN st
    ELSE relax(g, relax_edge(g, st, current_dist + g.edges[current][i].weight,
                             current, g.edges[current][i]),
               current_dist, current, i + 1)

\* the while loop of dijkstra; dijkstra_visit is its body for the popped tuple
RECURSIVE dijkstra_loop(_, _, _)
RECURSIVE dijkstra_visit(_, _, _, _)
dijkstra_loop(g, end, st) ==
    IF st.pq = {} \/ st.raised THEN st
    ELSE dijkstra_visit(g, end, [st EXCEPT !.pq = @ \ {pq_min(st.pq)}],
                        pq_min(st.pq))

dijkstra_visit(g, end, st, top) ==
    IF top[2] \in st.visited THEN dijkstra_loop(g, end, st)
    ELSE IF top[2] = end THEN [st EXCEPT !.visited = @ \cup {end}]
    ELSE dijkstra_loop(g, end,
             relax(g, [st EXCEPT !.visited = @ \cup {top[2]}], top[1], top[2], 1))

\* the path that "while current: ... current = previous[current]" collects
RECURSIVE path_to(_, _)
path_to(previous, current) ==
    IF current = <<>> THEN <<>>
    ELSE path_to(previous, previous[current[1]]) \o <<current[1]>>

dijkstra_result(start, end, st) ==
    IF st.raised THEN [NoRoute EXCEPT !.raised = TRUE]
    ELSE IF path_to(st.previous, <<end>>)[1] # start THEN NoRoute
    ELSE [path |-> path_to(st.previous, <<end>>), cost |-> st.distances[end],
          raised |-> FALSE]

dijkstra(g, start, end) ==
    IF start \notin DOMAIN g.nodes \/ end \notin DOMAIN g.nodes THEN NoRoute
    ELSE dijkstra_result(start, end,
             dijkstra_loop(g, end,
                 [pq |-> {<<0, start>>},
                  distances |-> [n \in DOMAIN g.nodes |->
                                    IF n = start THEN <<0>> ELSE <<>>],
                  previous |-> [n \in DOMAIN g.nodes |-> <<>>],
                  visited |-> {}, raised |-> FALSE]))

\* abs(load1 - load2) * 0.01, in hundredths
heuristic(g, node1, node2) ==
    IF g.nodes[node1].current_load >= g.nodes[node2].current_load
    THEN g.nodes[node1].current_load - g.nodes[node2].current_load
    ELSE g.nodes[node2].current_load - g.nodes[node1].current_load

\* the body of the loop over self.edges[current] of astar; the numbers of
\* open_set are f_score in hundredths
astar_edge(g, end, st, tentative_g, current, e) ==
    IF g.lines[e.line].status # "active" THEN st
    ELSE IF e.neighbor \notin DOMAIN g.nodes THEN [st EXCEPT !.raised = TRUE]
    ELSE IF Before(tentative_g, st.g_score[e.neighbor])
    THEN [st EXCEPT !.came_from[e.neighbor] = <<current>>,
                    !.g_score[e.neighbor] = <<tentative_g>>,
                    !.open_set = @ \cup {<<100 * tentative_g
                                            + heuristic(g, e.neighbor, end),
                                          e.neighbor>>}]
    ELSE st

RECURSIVE astar_edges(_, _, _, _, _)
astar_edges(g, end, st, current, i) ==
    IF i > Len(g.edges[current]) \/ st.raised THEN st
    ELSE astar_edges(g, end,
             astar_edge(g, end, st,
                        st.g_score[current][1] + g.edges[current][i].weight,
                        current, g.edges[current][i]),
             current, i + 1)

\* the while loop of astar; astar_visit is its body for the popped tuple
RECURSIVE astar_loop(_, _, _)
RECURSIVE astar_visit(_, _, _, _)
astar_loop(g, end, st) ==
    IF st.open_set = {} \/ st.raised THEN st
    ELSE astar_visit(g, end, [st EXCEPT !.open_set = @ \ {pq_min(st.open_set)}],
                     pq_min(st.open_set)[2])

astar_visit(g, end, st, current) ==
    IF current = end THEN [st EXCEPT !.reached = TRUE]
    ELSE astar_loop(g, end, astar_edges(g, end, st, current, 1))

\* the nodes that "while current in came_from" collects, reversed
RECURSIVE came_path(_, _)
came_path(came_from, current) ==
    IF came_from[current] = <<>> THEN <<>>
    ELSE came_path(came_from, came_from[current][1]) \o <<current>>

astar_result(start, end, st) ==
    IF st.raised THEN [NoRoute EXCEPT !.raised = TRUE]
    ELSE IF st.reached
    THEN [path |-> <<start>> \o came_path(st.came_from, end),
          cost |-> st.g_score[end], raised |-> FALSE]
    ELSE NoRoute

astar(g, start, end) ==
    IF start \notin DOMAIN g.nodes \/ end \notin DOMAIN g.nodes THEN NoRoute
    ELSE astar_result(start, end,
             astar_loop(g, end,
                 [open_set |-> {<<0, start>>},
                  came_from |-> [n \in DOMAIN g.nodes |-> <<>>],
                  g_score |-> [n \in DOMAIN g.nodes |->
                                  IF n = start THEN <<0>> ELSE <<>>],
                  reached |-> FALSE, raised |-> FALSE]))

\* the lines of the entries of self.edges[from_node] that lead to to_node
lines_between(g, from_node, to_node) ==
    {g.edges[from_node][i].line :
        i \in {j \in 1..Len(g.edges[from_node]) :
                  g.edges[from_node][j].neighbor = to_node}}

\* _disable_edge that changes no status
disable_edge_none(g, from_node, to_node) == g

disable_edge(g, from_node, to_node) ==
    [g EXCEPT !.lines =
        [li \in DOMAIN g.lines |->
            IF li \in lines_between(g, from_node, to_node)
            THEN [g.lines[li] EXCEPT !.status = "temp_disabled"]
            ELSE g.lines[li]]]

enable_edge(g, from_node, to_node) ==
    [g EXCEPT !.lines =
        [li \in DOMAIN g.lines |->
            IF li \in lines_between(g, from_node, to_node)
               /\ g.lines[li].status = "temp_disabled"
            THEN [g.lines[li] EXCEPT !.status = "active"]
            ELSE g.lines[li]]]

(***************************************************************************)
(* algorithms/routing.py                                                   *)
(***************************************************************************)
\* the characters of the node ids
Chars == [a |-> <<"a">>, a_b |-> <<"a", "_", "b">>, b_a |-> <<"b", "_", "a">>]

\* f"{source}_{destination}_{algorithm}"
cache_key(source, destination, algorithm) ==
    Chars[source] \o <<"_">> \o Chars[destination] \o <<"_">> \o <<algorithm>>

Router == [routing_cache |-> routing_cache, route_history |-> route_history]

\* the result dict (without execution_time)
route_result(r, algorithm) ==
    [path |-> r.path, cost |-> r.cost, algorithm |-> algorithm,
     hops |-> IF r.path # <<>> THEN Len(r.path) - 1 ELSE 0,
     found |-> r.path # <<>>]

\* the route that the algorithm computes on the graph as it is
computed_route(g, source, destination, algorithm) ==
    route_result(IF algorithm = "dijkstra" THEN dijkstra(g, source, destination)
                 ELSE astar(g, source, destination),
                 algorithm)

\* every result is cached and added to the history
route_store_always(R, key, result) ==
    [R |-> [routing_cache |-> (key :> result) @@ R.routing_cache,
            route_history |-> Append(R.route_history, result)],
     result |-> result]

\* a result that was found is cached and added to the history
route_store(R, key, result) ==
    IF result.found
    THEN [R |-> [routing_cache |-> (key :> result) @@ R.routing_cache,
                 route_history |-> Append(R.route_history, result)],
          result |-> result]
    ELSE [R |-> R, result |-> result]

find_optimal_route(R, g, source, destination, algorithm) ==
    IF cache_key(source, destination, algorithm) \in DOMAIN R.routing_cache
    THEN [R |-> R,
          result |-> R.routing_cache[cache_key(source, destination, algorithm)]]
    ELSE route_store(R, cache_key(source, destination, algorithm),
                     computed_route(g, source, destination, algorithm))

(***************************************************************************)
(* algorithms/balancing.py                                                 *)
(*                                                                         *)
(* The balancer and the optimizer work on the index and the graph: a state *)
(* S = [avl |-> AVLTree, g |-> EnergyGraph].  The data dicts of the index  *)
(* are shared with the lists the algorithms iterate over, so every read of *)
(* node_info['data'] is a read of the index as it is at that moment.       *)
(***************************************************************************)
Data(S, key) == search_recursive(S.avl.root, key)[1]

\* store_load without the call of graph.update_load
store_load_index_only(S, node_id, node_data) ==
    [avl |-> avl_insert(S.avl, node_id, node_data), g |-> S.g]

\* avl.insert(node_id, data) followed by graph.update_load(node_id, load)
store_load(S, node_id, node_data) ==
    [avl |-> avl_insert(S.avl, node_id, node_data),
     g |-> update_load(S.g, node_id, node_data.current_load)]

\* data = avl.search(node_id); data['current_load'] += amount; store it
add_load(S, node_id, amount) ==
    store_load(S, node_id, [Data(S, node_id) EXCEPT !.current_load = @ + amount])

\* apply_transfer with a destination that receives one unit less
apply_transfer_lossy(S, transfer) ==
    add_load(add_load(S, transfer.from, 0 - transfer.amount),
             transfer.to, transfer.amount - 1)

\* _apply_transfer and _apply_efficiency_transfer (the same statements)
apply_transfer(S, transfer) ==
    add_load(add_load(S, transfer.from, 0 - transfer.amount),
             transfer.to, transfer.amount)

RECURSIVE apply_transfers(_, _)
apply_transfers(S, transfers) ==
    IF transfers = <<>> THEN S
    ELSE apply_transfers(apply_transfer(S, Head(transfers)), Tail(transfers))

\* list.sort(key=efficiency, reverse=True): stable, equal keys keep their order
RECURSIVE sort_by_efficiency(_)
sort_by_efficiency(seq) ==
    IF seq = <<>> THEN <<>>
    ELSE LET rest == sort_by_efficiency(Tail(seq))
             x == Head(seq)
             \* x goes before the first element of rest that is not more efficient
             k == Cardinality({i \in 1..Len(rest) : rest[i].efficiency > x.efficiency})
         IN SubSeq(rest, 1, k) \o <<x>> \o SubSeq(rest, k + 1, Len(rest))

\* the neighbours of source_node with available capacity, in adjacency order
RECURSIVE available_neighbors(_, _, _)
available_neighbors(S, neighbors, i) ==
    IF i > Len(neighbors) THEN <<>>
    ELSE LET nb == neighbors[i]
             found == search_recursive(S.avl.root, nb.neighbor)
             rest == available_neighbors(S, neighbors, i + 1)
         IN IF S.g.lines[nb.line].status # "active" THEN rest
            ELSE IF found = <<>> THEN rest
            ELSE IF found[1].capacity - found[1].current_load > 0
            THEN <<[id |-> nb.neighbor,
                    available |-> found[1].capacity - found[1].current_load,
                    efficiency |-> found[1].efficiency]>> \o rest
            ELSE rest

\* the greedy distribution of remaining_load over the sorted candidates
RECURSIVE plan_transfers(_, _, _)
plan_transfers(source_node, candidates, remaining_load) ==
    IF candidates = <<>> \/ remaining_load <= 0 THEN <<>>
    ELSE LET transfer_amount == Min2(remaining_load, Head(candidates).available)
         IN <<[from |-> source_node, to |-> Head(candidates).id,
               amount |-> transfer_amount]>>
            \o plan_transfers(source_node, Tail(candidates),
                              remaining_load - transfer_amount)

RECURSIVE SumAmounts(_)
SumAmounts(transfers) ==
    IF transfers = <<>> THEN 0
    ELSE Head(transfers).amount + SumAmounts(Tail(transfers))

\* the end of _redistribute_load: apply the transfers, report the success
redistribute_apply(S, transfers, load_to_transfer) ==
    [S |-> apply_transfers(S, transfers),
     success |-> 10 * (load_to_transfer - SumAmounts(transfers)) < load_to_transfer,
     transfers |-> transfers]

redistribute_among(S, source_node, available, load_to_transfer) ==
    IF available = <<>>
    THEN [S |-> S, success |-> FALSE, transfers |-> <<>>]
    ELSE redistribute_apply(S,
             plan_transfers(source_node, sort_by_efficiency(available),
                            load_to_transfer),
             load_to_transfer)

redistribute_load(S, source_node, load_to_transfer) ==
    redistribute_among(S, source_node,
                       available_neighbors(S, S.g.edges[source_node], 1),
                       load_to_transfer)

\* excess_load = current_load - capacity * 0.8
excess_load(node_data) == node_data.current_load - (node_data.capacity * 4) \div 5

\* the result r of _redistribute_load added to what the loop has so far
balance_record(acc, r) ==
    [S |-> r.S, balanced |-> acc.balanced + (IF r.success THEN 1 ELSE 0),
     transfers |-> acc.transfers \o r.transfers]

\* one turn of the loop of LoadBalancer.balance_network
balance_node(acc, node_id) ==
    IF excess_load(Data(acc.S, node_id)) > 0
    THEN balance_record(acc, redistribute_load(acc.S, node_id,
                                 excess_load(Data(acc.S, node_id))))
    ELSE acc

\* the loop of LoadBalancer.balance_network over the overloaded list
RECURSIVE balance_loop(_, _, _)
balance_loop(acc, overloaded, i) ==
    IF i > Len(overloaded) THEN acc
    ELSE balance_loop(balance_node(acc, overloaded[i].key), overloaded, i + 1)

\* the dict that balance_network returns; success_rate in percent
balance_report(acc, overloaded) ==
    [S |-> acc.S, raised |-> FALSE, overloaded_nodes |-> Len(overloaded),
     balanced |-> acc.balanced,
     success_rate |-> IF overloaded # <<>>
                      THEN (100 * acc.balanced) \div Len(overloaded) ELSE 100,
     transfers |-> acc.transfers]

balance_overloaded(S, overloaded) ==
    balance_report(balance_loop([S |-> S, balanced |-> 0, transfers |-> <<>>],
                                overloaded, 1),
                   overloaded)

\* balance_network that asks for the nodes above 0.8 of their capacity
lb_balance_network_eager(S) ==
    IF some_zero_capacity(S.avl.root)
    THEN [S |-> S, raised |-> TRUE, overloaded_nodes |-> 0, balanced |-> 0,
          success_rate |-> 0, transfers |-> <<>>]
    ELSE balance_overloaded(S, find_overloaded(S.avl.root, 8, 10))

\* LoadBalancer.balance_network: raised when _find_overloaded divides by zero
lb_balance_network(S) ==
    IF some_zero_capacity(S.avl.root)
    THEN [S |-> S, raised |-> TRUE, overloaded_nodes |-> 0, balanced |-> 0,
          success_rate |-> 0, transfers |-> <<>>]
    ELSE balance_overloaded(S, find_overloaded(S.avl.root, 9, 10))

(***************************************************************************)
(* algorithms/efficiency.py                                                *)
(***************************************************************************)
\* The loop of _attract_load_to_efficient_node over the neighbours.  An amount
\* is min(0.2 * load, rest); exact is FALSE when that is not a whole number.
RECURSIVE attract_plan(_, _, _, _, _, _)
attract_plan(S, target_node, target_data, neighbors, i, total_transferred) ==
    LET available_capacity == target_data.capacity - target_data.current_load
    IN IF i > Len(neighbors) THEN [transfers |-> <<>>, exact |-> TRUE]
       ELSE LET nb == neighbors[i]
                found == search_recursive(S.avl.root, nb.neighbor)
                skip == attract_plan(S, target_node, target_data, neighbors, i + 1,
                                     total_transferred)
            IN IF S.g.lines[nb.line].status # "active" THEN skip
               ELSE IF found = <<>> THEN skip
               ELSE IF ~(found[1].efficiency < target_data.efficiency) THEN skip
               ELSE LET rest == available_capacity - total_transferred
                        fifths == Min2(found[1].current_load, 5 * rest)
                        transferable == fifths \div 5
                    IN IF fifths <= 0 THEN skip
                       ELSE LET t == [from |-> nb.neighbor, to |-> target_node,
                                      amount |-> transferable,
                                      efficiency_from |-> found[1].efficiency,
                                      efficiency_to |-> target_data.efficiency]
                                more == IF total_transferred + transferable
                                              >= available_capacity
                                        THEN [transfers |-> <<>>, exact |-> TRUE]
                                        ELSE attract_plan(S, target_node, target_data,
                                                 neighbors, i + 1,
                                                 total_transferred + transferable)
                            IN [transfers |-> <<t>> \o more.transfers,
                                exact |-> fifths % 5 = 0 /\ more.exact]

\* a gain that leaves out the efficiency of the giving node
RECURSIVE efficiency_gain_gross(_)
efficiency_gain_gross(transfers) ==
    IF transfers = <<>> THEN 0
    ELSE Head(transfers).amount * Head(transfers).efficiency_to
            + efficiency_gain_gross(Tail(transfers))

\* sum(t['amount'] * (t['efficiency_to'] - t['efficiency_from'])), in hundredths
RECURSIVE efficiency_gain(_)
efficiency_gain(transfers) ==
    IF transfers = <<>> THEN 0
    ELSE Head(transfers).amount
            * (Head(transfers).efficiency_to - Head(transfers).efficiency_from)
            + efficiency_gain(Tail(transfers))

\* the end of _attract_load_to_efficient_node: apply the planned transfers
attract_apply(S, p) ==
    [S |-> apply_transfers(S, p.transfers), transfers |-> p.transfers,
     exact |-> p.exact, efficiency_gain |-> efficiency_gain(p.transfers)]

attract_load_to_efficient_node(S, target_node, target_data) ==
    IF target_data.capacity - target_data.current_load <= 0
    THEN [S |-> S, transfers |-> <<>>, exact |-> TRUE, efficiency_gain |-> 0]
    ELSE attract_apply(S, attract_plan(S, target_node, target_data,
                                       S.g.edges[target_node], 1, 0))

\* the transfers r of one node added to what the loop has so far
optimize_record(acc, r) ==
    [S |-> r.S, raised |-> FALSE, transfers |-> acc.transfers \o r.transfers,
     exact |-> acc.exact /\ r.exact,
     improvements |-> acc.improvements + (IF r.transfers # <<>> THEN 1 ELSE 0),
     total_efficiency_gain |-> acc.total_efficiency_gain + r.efficiency_gain]

\* optimize_node that attracts load to a node up to a utilization of 0.9
optimize_node_eager(acc, node_id, node_data) ==
    IF node_data.capacity = 0 THEN [acc EXCEPT !.raised = TRUE]
    ELSE IF 10 * node_data.current_load < 9 * node_data.capacity
            /\ node_data.efficiency > 85
    THEN optimize_record(acc, attract_load_to_efficient_node(acc.S, node_id,
                                                             node_data))
    ELSE acc

\* One turn of the loop of optimize_network; utilization = load / capacity
\* raises on a capacity of zero.
optimize_node(acc, node_id, node_data) ==
    IF node_data.capacity = 0 THEN [acc EXCEPT !.raised = TRUE]
    ELSE IF 10 * node_data.current_load < 6 * node_data.capacity
            /\ node_data.efficiency > 85
    THEN optimize_record(acc, attract_load_to_efficient_node(acc.S, node_id,
                                                             node_data))
    ELSE acc

\* the loop of optimize_network over the nodes sorted by efficiency
RECURSIVE optimize_loop(_, _, _)
optimize_loop(acc, sorted_nodes, i) ==
    IF i > Len(sorted_nodes) \/ acc.raised THEN acc
    ELSE optimize_loop(optimize_node(acc, sorted_nodes[i].key,
                                     Data(acc.S, sorted_nodes[i].key)),
                       sorted_nodes, i + 1)

inorder_efficiencies(S) ==
    LET all_nodes == inorder_recursive(S.avl.root)
    IN [i \in 1..Len(all_nodes) |->
          [key |-> all_nodes[i].key, efficiency |-> all_nodes[i].data.efficiency]]

optimize_network(S) ==
    optimize_loop([S |-> S, raised |-> FALSE, transfers |-> <<>>, exact |-> TRUE,
                   improvements |-> 0, total_efficiency_gain |-> 0],
                  sort_by_efficiency(inorder_efficiencies(S)), 1)

(***************************************************************************)
(* app.py: state and handlers                                              *)
(***************************************************************************)
\* no handler is part-way through
Idle == [redundant |-> [pc |-> "idle"], balance |-> [pc |-> "idle"],
         update |-> [pc |-> "idle"], search |-> [pc |-> "idle"]]

InitAppState ==
    [overloads_detected |-> 0, overloads_resolved |-> 0, overload_actions |-> 0,
     total_operations |-> 0]

Init ==
    /\ nodes = EmptyGraph.nodes
    /\ edges = EmptyGraph.edges
    /\ lines = EmptyGraph.lines
    /\ node_count = 0
    /\ edge_count = 0
    /\ root = Nil
    /\ size = 0
    /\ rotations = 0
    /\ heap = <<>>
    /\ counter = 0
    /\ queue = <<>>
    /\ processed = 0
    /\ dropped = 0
    /\ app_state = InitAppState
    /\ routing_cache = <<>>
    /\ route_history = <<>>
    /\ bplus_tree = EmptyBPlus
    /\ inflight = Idle
    /\ last = [op |-> "init"]

SetGraph(g) ==
    /\ nodes' = g.nodes
    /\ edges' = g.edges
    /\ lines' = g.lines
    /\ node_count' = g.node_count
    /\ edge_count' = g.edge_count

SetAVL(t) ==
    /\ root' = t.root
    /\ size' = t.size
    /\ rotations' = t.rotations

SetEvents(h, q) ==
    /\ heap' = h.heap
    /\ counter' = h.counter
    /\ queue' = q.queue
    /\ processed' = q.processed
    /\ dropped' = q.dropped

\* The persistence sink at the time of a call: "up", the session works;
\* "failing", db.get_session() returns a session and its queries and commit
\* raise; "none", db.SessionLocal is None (init_db did not run or failed) and
\* db.get_session() raises.
Sinks == {"up", "failing", "none"}

\* POST /api/nodes.  The node is recorded in the sink after the graph and the
\* index were changed; an exception of the sink is answered with 500.
create_node(node_id, node_type, capacity, efficiency, sink) ==
    /\ SetGraph(add_node(Graph, node_id, node_type, capacity, efficiency, 0))
    /\ SetAVL(avl_insert(AVL, node_id,
                         [capacity |-> capacity, current_load |-> 0,
                          efficiency |-> efficiency, type |-> node_type]))
    /\ last' = [op |-> "create_node", node_id |-> node_id,
                status |-> IF sink = "up" THEN 201 ELSE 500]
    /\ UNCHANGED <<eventVars, app_state, routerVars, inflight>>

\* EnergyGraph.add_edge, called on the graph
AddEdge(from_node, to_node, distance, resistance) ==
    /\ LET r == add_edge(Graph, from_node, to_node, distance, resistance)
       IN /\ SetGraph(r.g)
          /\ last' = [op |-> "add_edge", from_node |-> from_node,
                      to_node |-> to_node, raised |-> r.raised]
    /\ UNCHANGED <<avlVars, eventVars, app_state, routerVars, inflight>>

overload_payload(load, capacity) == [load |-> load, capacity |-> capacity]

\* PUT /api/nodes/<node_id>/load
update_node_load(node_id, new_load) ==
    LET found == search_recursive(root, node_id)
    IN IF found = <<>>
       THEN /\ last' = [op |-> "update_load", node_id |-> node_id, load |-> new_load,
                        status |-> 404, pushed |-> 0]
            /\ UNCHANGED <<graphVars, avlVars, eventVars, app_state, routerVars,
                           inflight>>
       ELSE LET node_data == [found[1] EXCEPT !.current_load = new_load]
                over == new_load * 10 > node_data.capacity * 9
            IN /\ SetAVL(avl_insert(AVL, node_id, node_data))
               /\ SetGraph(update_load(Graph, node_id, new_load))
               /\ UNCHANGED <<routerVars, inflight>>
               /\ IF node_data.capacity = 0
                  THEN \* utilization = new_load / capacity raises
                       /\ last' = [op |-> "update_load", node_id |-> node_id,
                                   load |-> new_load, status |-> 500, pushed |-> 0]
                       /\ UNCHANGED <<eventVars, app_state>>
                  ELSE IF over
                  THEN /\ SetEvents(
                            heap_push(PH, "overload", node_id,
                                      overload_payload(new_load, node_data.capacity), HIGH),
                            enqueue(EQ, QueueEvent("overload", node_id,
                                      overload_payload(new_load, node_data.capacity), 2)))
                       /\ app_state' = [app_state EXCEPT !.overloads_detected = @ + 1]
                       /\ last' = [op |-> "update_load", node_id |-> node_id,
                                   load |-> new_load, status |-> 200, pushed |-> 1]
                  ELSE /\ UNCHANGED <<eventVars, app_state>>
                       /\ last' = [op |-> "update_load", node_id |-> node_id,
                                   load |-> new_load, status |-> 200, pushed |-> 0]

\* POST /api/iot/simulate-failure: the payload is None when the node has no sensor
simulate_failure(node_id) ==
    /\ LET failure == IF node_id \in DOMAIN nodes
                      THEN [node_id |-> node_id] ELSE [none |-> TRUE]
       IN SetEvents(heap_push(PH, "failure", node_id, failure, CRITICAL),
                    enqueue(EQ, QueueEvent("failure", node_id, failure, 1)))
    /\ last' = [op |-> "simulate_failure", node_id |-> node_id, status |-> 200]
    /\ UNCHANGED <<graphVars, avlVars, app_state, routerVars, inflight>>

\* PriorityHeap.pop, called on the heap of the application
pop_event ==
    /\ heap # <<>>
    /\ heap' = ranked(heap_pop(PH).h).heap
    /\ last' = [op |-> "pop", status |-> 200, event |-> heap_pop(PH).event]
    /\ UNCHANGED <<counter, queue, processed, dropped, graphVars, avlVars,
                   app_state, routerVars, inflight>>

\* a clean-up that counts every popped event as cleared
RECURSIVE coalesce_heap_counts_all(_, _, _)
coalesce_heap_counts_all(h, new_heap, cleared) ==
    IF Len(h.heap) = 0 THEN [new_heap |-> new_heap, cleared |-> cleared]
    ELSE LET p == heap_pop(h)
         IN IF p.event.event_type = "overload"
            THEN coalesce_heap_counts_all(p.h, new_heap, cleared + 1)
            ELSE coalesce_heap_counts_all(p.h,
                     restamp(heap_push(new_heap, p.event.event_type,
                                       p.event.node_id, p.event.data,
                                       p.event.priority), p.seq),
                     cleared + 1)

\* The clean-up of balance_network: every entry is popped; the events that are
\* not overloads are pushed, in pop order, on a new PriorityHeap.
RECURSIVE coalesce_heap(_, _, _)
coalesce_heap(h, new_heap, cleared) ==
    IF Len(h.heap) = 0 THEN [new_heap |-> new_heap, cleared |-> cleared]
    ELSE LET p == heap_pop(h)
         IN IF p.event.event_type = "overload"
            THEN coalesce_heap(p.h, new_heap, cleared + 1)
            ELSE coalesce_heap(p.h,
                     restamp(heap_push(new_heap, p.event.event_type,
                                       p.event.node_id, p.event.data,
                                       p.event.priority), p.seq),
                     cleared)

\* the queue is cleared and nothing is enqueued again
coalesce_queue_cleared(q, old_queue) == q

\* ... and the queue is cleared and the other events are enqueued again.
RECURSIVE coalesce_queue(_, _)
coalesce_queue(q, old_queue) ==
    IF old_queue = <<>> THEN q
    ELSE coalesce_queue(
             IF Head(old_queue).event_type # "overload"
             THEN enqueue(q, Head(old_queue)) ELSE q,
             Tail(old_queue))

\* POST /api/balance, after load_balancer.balance_network() returned r
balance_respond(r, c) ==
    /\ SetGraph(r.S.g)
    /\ SetAVL(r.S.avl)
    /\ SetEvents(ranked(c.new_heap),
                 coalesce_queue([EQ EXCEPT !.queue = <<>>], queue))
    /\ app_state' =
         [app_state EXCEPT
            !.total_operations = @ + r.balanced,
            !.overloads_resolved = @ + c.cleared,
            !.overload_actions = IF c.cleared > 0 THEN @ + 1 ELSE @]
    /\ last' = [op |-> "balance", status |-> 200, transfers |-> r.transfers,
                overloaded_nodes |-> r.overloaded_nodes,
                balanced |-> r.balanced, success_rate |-> r.success_rate,
                events_cleared |-> c.cleared]
    /\ UNCHANGED <<routerVars, inflight>>

\* POST /api/balance: an exception of the balancer ends the handler
balance_network ==
    IF some_zero_capacity(root)
    THEN /\ last' = [op |-> "balance", status |-> 500, transfers |-> <<>>,
                     events_cleared |-> 0]
         /\ UNCHANGED <<graphVars, avlVars, eventVars, app_state, routerVars,
                        inflight>>
    ELSE balance_respond(lb_balance_network([avl |-> AVL, g |-> Graph]),
                         coalesce_heap(PH, EmptyPH, 0))

\* POST /api/optimize, after efficiency_optimizer.optimize_network() returned r
optimize_respond(r) ==
    /\ r.exact
    /\ SetGraph(r.S.g)
    /\ SetAVL(r.S.avl)
    /\ last' = [op |-> "optimize", status |-> IF r.raised THEN 500 ELSE 200,
                transfers |-> r.transfers,
                optimizations_performed |-> r.improvements,
                total_efficiency_gain |-> r.total_efficiency_gain]
    /\ UNCHANGED <<eventVars, app_state, routerVars, inflight>>

\* POST /api/optimize: an exception leaves the transfers applied before it
optimize_efficiency == optimize_respond(optimize_network([avl |-> AVL, g |-> Graph]))

\* The loads a sensor with base_load = capacity * 0.5 reports: 0 when it fails,
\* else base_load times a factor between about 0.3 and 2.4.
ReadingLoads(capacity) == {0, capacity \div 2, (capacity * 19) \div 20}

RECURSIVE ingest(_, _)
ingest(S, readings) ==
    IF readings = <<>> THEN S
    ELSE LET reading == Head(readings)
             found == search_recursive(S.avl.root, reading.node_id)
         IN ingest(IF found = <<>> THEN S
                   ELSE [avl |-> avl_insert(S.avl, reading.node_id,
                                    [found[1] EXCEPT !.current_load = reading.load]),
                         g |-> update_load(S.g, reading.node_id, reading.load)],
                   Tail(readings))

\* the sequences without repetition of n elements of set
Arrangements(set, n) ==
    {seq \in [1..n -> set] : \A i, j \in 1..n : i # j => seq[i] # seq[j]}

\* the ids of set in ascending order
RECURSIVE SortedIds(_)
SortedIds(set) ==
    IF set = {} THEN <<>>
    ELSE LET m == CHOOSE x \in set : \A y \in set : y = x \/ KeyLT(x, y)
         IN <<m>> \o SortedIds(set \ {m})

\* GET /api/iot/readings: one reading for every sensor (every created node has
\* one, with base_load = capacity * 0.5)
get_iot_readings ==
    /\ nodes # <<>>
    /\ \E loads \in [DOMAIN nodes -> UNION {ReadingLoads(nodes[n].capacity) :
                                                n \in DOMAIN nodes}] :
          /\ \A n \in DOMAIN nodes : loads[n] \in ReadingLoads(nodes[n].capacity)
          /\ LET order == SortedIds(DOMAIN nodes)
                 readings == [i \in 1..Len(order) |->
                                 [node_id |-> order[i], load |-> loads[order[i]]]]
                 S == ingest([avl |-> AVL, g |-> Graph], readings)
             IN /\ SetGraph(S.g)
                /\ SetAVL(S.avl)
                /\ last' = [op |-> "readings", status |-> 200, readings |-> readings]
    /\ UNCHANGED <<eventVars, app_state, routerVars, inflight>>

\* the loop of simulate_overload over the selected consumers
RECURSIVE overload_loop(_, _)
overload_loop(W, selected) ==
    IF selected = <<>> THEN W
    ELSE LET node_id == Head(selected)
             new_load == (Data(W, node_id).capacity * 19) \div 20
             node_data == [Data(W, node_id) EXCEPT !.current_load = new_load]
             W1 == [W EXCEPT !.avl = avl_insert(W.avl, node_id, node_data),
                             !.g = update_load(W.g, node_id, new_load)]
             event_payload == overload_payload(new_load, node_data.capacity)
         IN IF node_data.capacity = 0
            THEN [W1 EXCEPT !.raised = TRUE]
            ELSE overload_loop(
                     [W1 EXCEPT
                        !.h = heap_push(W1.h, "overload", node_id, event_payload, HIGH),
                        !.q = enqueue(W1.q, QueueEvent("overload", node_id,
                                                       event_payload, 2)),
                        !.detected = @ + 1],
                     Tail(selected))

Consumers ==
    LET all_nodes == inorder_recursive(root)
    IN {all_nodes[i].key : i \in {j \in 1..Len(all_nodes) :
                                     all_nodes[j].data.type = "consumer"}}

\* POST /api/simulate-overload: random.sample picks the consumers and their order
simulate_overload(num_nodes) ==
    \E selected \in Arrangements(Consumers, Min2(num_nodes, Cardinality(Consumers))) :
        LET W == overload_loop([avl |-> AVL, g |-> Graph, h |-> PH, q |-> EQ,
                                detected |-> app_state.overloads_detected,
                                raised |-> FALSE], selected)
        IN /\ SetGraph(W.g)
           /\ SetAVL(W.avl)
           /\ SetEvents(W.h, W.q)
           /\ app_state' = [app_state EXCEPT !.overloads_detected = W.detected]
           /\ last' = [op |-> "simulate_overload", selected |-> selected,
                       status |-> IF W.raised THEN 500 ELSE 200]
           /\ UNCHANGED <<routerVars, inflight>>

\* POST /api/route, after the route of the preferred algorithm: the other
\* algorithm runs as well.  (power_loss, which the handler adds to the result,
\* and the timings are left out.)
route_respond(source, destination, preferred, main) ==
    /\ routing_cache' =
          find_optimal_route(main.R, Graph, source, destination,
              IF preferred = "dijkstra" THEN "astar" ELSE "dijkstra").R.routing_cache
    /\ route_history' =
          find_optimal_route(main.R, Graph, source, destination,
              IF preferred = "dijkstra" THEN "astar" ELSE "dijkstra").R.route_history
    /\ last' = [op |-> "route", status |-> 200, source |-> source,
                destination |-> destination, algorithm |-> preferred,
                result |-> main.result]
    /\ UNCHANGED <<graphVars, avlVars, eventVars, app_state, inflight>>

\* POST /api/route
find_route(source, destination, preferred) ==
    route_respond(source, destination, preferred,
                  find_optimal_route(Router, Graph, source, destination, preferred))

\* POST /api/route/redundant: find_alternative_routes starts
redundant_begin(source, destination, k) ==
    /\ inflight.redundant.pc = "idle"
    /\ inflight' = [inflight EXCEPT !.redundant =
                       [pc |-> "search", start |-> source, end |-> destination,
                        left |-> k, routes |-> <<>>]]
    /\ UNCHANGED <<graphVars, avlVars, eventVars, app_state, routerVars, last>>

\* the route d of one turn of "for _ in range(k)", before its edges are disabled
redundant_found(fr, d) ==
    IF d.raised
    THEN \* the exception ends the handler; the disabled edges stay disabled
         /\ inflight' = [inflight EXCEPT !.redundant = [pc |-> "idle"]]
         /\ last' = [op |-> "redundant", status |-> 500, source |-> fr.start,
                     destination |-> fr.end, routes |-> <<>>]
    ELSE /\ last' = last
         /\ inflight' = [inflight EXCEPT !.redundant =
               IF d.path = <<>>
               THEN [fr EXCEPT !.left = @ - 1]
               ELSE IF Len(d.path) = 1
               THEN [fr EXCEPT !.left = @ - 1,
                               !.routes = Append(@, [path |-> d.path, cost |-> d.cost])]
               ELSE [pc |-> "disable", start |-> fr.start, end |-> fr.end,
                     left |-> fr.left,
                     routes |-> Append(fr.routes, [path |-> d.path, cost |-> d.cost]),
                     path |-> d.path, i |-> 1]]

\* one turn of "for _ in range(k)": the call of dijkstra
redundant_search ==
    /\ inflight.redundant.pc = "search"
    /\ inflight.redundant.left > 0
    /\ redundant_found(inflight.redundant,
                       dijkstra(Graph, inflight.redundant.start, inflight.redundant.end))
    /\ UNCHANGED <<graphVars, avlVars, eventVars, app_state, routerVars>>

\* one call self._disable_edge(path[i], path[i+1])
redundant_disable ==
    /\ inflight.redundant.pc = "disable"
    /\ lines' = disable_edge(Graph, inflight.redundant.path[inflight.redundant.i],
                             inflight.redundant.path[inflight.redundant.i + 1]).lines
    /\ inflight' = [inflight EXCEPT !.redundant =
          IF inflight.redundant.i + 1 < Len(inflight.redundant.path)
          THEN [@ EXCEPT !.i = @ + 1]
          ELSE [pc |-> "search", start |-> @.start, end |-> @.end,
                left |-> @.left - 1, routes |-> @.routes]]
    /\ UNCHANGED <<nodes, edges, node_count, edge_count, avlVars, eventVars,
                   app_state, routerVars, last>>

\* the loop is over: the edges of the routes are enabled again, route by route
redundant_restore ==
    /\ inflight.redundant.pc = "search"
    /\ inflight.redundant.left = 0
    /\ inflight' = [inflight EXCEPT !.redundant =
                       [pc |-> "restore", start |-> @.start, end |-> @.end,
                        routes |-> @.routes, r |-> 1, i |-> 1]]
    /\ UNCHANGED <<graphVars, avlVars, eventVars, app_state, routerVars, last>>

\* one call self._enable_edge(route['path'][i], route['path'][i+1]), or the
\* step to the next route
redundant_enable ==
    /\ inflight.redundant.pc = "restore"
    /\ inflight.redundant.r <= Len(inflight.redundant.routes)
    /\ IF inflight.redundant.i
            < Len(inflight.redundant.routes[inflight.redundant.r].path)
       THEN /\ lines' = enable_edge(Graph,
                   inflight.redundant.routes[inflight.redundant.r].path[
                       inflight.redundant.i],
                   inflight.redundant.routes[inflight.redundant.r].path[
                       inflight.redundant.i + 1]).lines
            /\ inflight' = [inflight EXCEPT !.redundant.i = @ + 1]
       ELSE /\ lines' = lines
            /\ inflight' = [inflight EXCEPT !.redundant.r = @ + 1,
                                            !.redundant.i = 1]
    /\ UNCHANGED <<nodes, edges, node_count, edge_count, avlVars, eventVars,
                   app_state, routerVars, last>>

\* find_alternative_routes returns and the handler answers
redundant_end ==
    /\ inflight.redundant.pc = "restore"
    /\ inflight.redundant.r > Len(inflight.redundant.routes)
    /\ inflight' = [inflight EXCEPT !.redundant = [pc |-> "idle"]]
    /\ last' = [op |-> "redundant", status |-> 200,
                source |-> inflight.redundant.start,
                destination |-> inflight.redundant.end,
                routes |-> inflight.redundant.routes]
    /\ UNCHANGED <<graphVars, avlVars, eventVars, app_state, routerVars>>

\* GET /api/stats: the statistics of the graph and the overload counters (the
\* other parts of the answer are left out); nothing changes
get_system_stats ==
    /\ last' = [op |-> "stats", status |-> 200,
                network |-> get_network_stats(Graph),
                overload_metrics |->
                    [overloads_detected |-> app_state.overloads_detected,
                     overloads_resolved |-> app_state.overloads_resolved]]
    /\ UNCHANGED <<graphVars, avlVars, eventVars, app_state, routerVars, inflight>>

(***************************************************************************)
(* dijkstra and astar turn by turn: one step is one turn of the while loop *)
(* of the search or of the loop that collects the path.  inflight.search   *)
(* holds the local variables of the call.                                  *)
(***************************************************************************)
\* the call returns r
search_return(r) ==
    /\ last' = [op |-> "search", algorithm |-> inflight.search.algorithm,
                source |-> inflight.search.start,
                destination |-> inflight.search.end, result |-> r]
    /\ inflight' = [inflight EXCEPT !.search = [pc |-> "idle"]]

\* the loop of the call goes on with the local variables st
search_goes_on(pc, st, path, current) ==
    /\ last' = last
    /\ inflight' = [inflight EXCEPT !.search =
                       [@ EXCEPT !.pc = pc, !.st = st, !.path = path,
                                 !.current = current]]

\* graph.dijkstra(start, end) or graph.astar(start, end) is called
search_begin(algorithm, start, end) ==
    /\ inflight = Idle
    /\ IF start \notin DOMAIN nodes \/ end \notin DOMAIN nodes
       THEN /\ last' = [op |-> "search", algorithm |-> algorithm,
                        source |-> start, destination |-> end,
                        result |-> NoRoute]
            /\ inflight' = inflight
       ELSE /\ last' = last
            /\ inflight' = [inflight EXCEPT !.search =
                  [pc |-> "loop", algorithm |-> algorithm, start |-> start,
                   end |-> end, path |-> <<>>, current |-> <<>>,
                   st |-> IF algorithm = "dijkstra"
                          THEN [pq |-> {<<0, start>>},
                                distances |-> [n \in DOMAIN nodes |->
                                                  IF n = start THEN <<0>> ELSE <<>>],
                                previous |-> [n \in DOMAIN nodes |-> <<>>],
                                visited |-> {}, raised |-> FALSE]
                          ELSE [open_set |-> {<<0, start>>},
                                came_from |-> [n \in DOMAIN nodes |-> <<>>],
                                g_score |-> [n \in DOMAIN nodes |->
                                                IF n = start THEN <<0>> ELSE <<>>],
                                reached |-> FALSE, raised |-> FALSE]]]
    /\ UNCHANGED <<graphVars, avlVars, eventVars, app_state, routerVars>>

\* after the loop over self.edges[current]: a KeyError ends the call
search_relaxed(st) ==
    IF st.raised THEN search_return([NoRoute EXCEPT !.raised = TRUE])
    ELSE search_goes_on("loop", st, <<>>, <<>>)

\* one turn of "while pq" of dijkstra
dijkstra_step ==
    /\ inflight.search.pc = "loop"
    /\ inflight.search.algorithm = "dijkstra"
    /\ LET st == inflight.search.st
           end == inflight.search.end
       IN IF st.pq = {}
          THEN search_goes_on("path", st, <<>>, <<end>>)
          ELSE LET top == pq_min(st.pq)
                   popped == [st EXCEPT !.pq = @ \ {top}]
               IN IF top[2] \in st.visited
                  THEN search_goes_on("loop", popped, <<>>, <<>>)
                  ELSE IF top[2] = end
                  THEN search_goes_on("path",
                           [popped EXCEPT !.visited = @ \cup {end}], <<>>, <<end>>)
                  ELSE search_relaxed(
                           relax(Graph, [popped EXCEPT !.visited = @ \cup {top[2]}],
                                 top[1], top[2], 1))
    /\ UNCHANGED <<graphVars, avlVars, eventVars, app_state, routerVars>>

\* one turn of "while current" of dijkstra, or the statements after it; path
\* is kept in the order it has after path.reverse()
dijkstra_path_step ==
    /\ inflight.search.pc = "path"
    /\ inflight.search.algorithm = "dijkstra"
    /\ LET f == inflight.search
       IN IF f.current # <<>>
          THEN search_goes_on("path", f.st, <<f.current[1]>> \o f.path,
                              f.st.previous[f.current[1]])
          ELSE IF f.path[1] # f.start THEN search_return(NoRoute)
          ELSE search_return([path |-> f.path, cost |-> f.st.distances[f.end],
                              raised |-> FALSE])
    /\ UNCHANGED <<graphVars, avlVars, eventVars, app_state, routerVars>>

\* one turn of "while open_set" of astar
astar_step ==
    /\ inflight.search.pc = "loop"
    /\ inflight.search.algorithm = "astar"
    /\ LET st == inflight.search.st
           end == inflight.search.end
       IN IF st.open_set = {}
          THEN search_return(NoRoute)
          ELSE LET current == pq_min(st.open_set)[2]
                   popped == [st EXCEPT !.open_set = @ \ {pq_min(st.open_set)}]
               IN IF current = end
                  THEN search_goes_on("path", [popped EXCEPT !.reached = TRUE],
                                      <<>>, <<end>>)
                  ELSE search_relaxed(astar_edges(Graph, end, popped, current, 1))
    /\ UNCHANGED <<graphVars, avlVars, eventVars, app_state, routerVars>>

\* one turn of "while current in came_from" of astar, or the statements after
\* it; path is kept in the order it has after path.reverse()
astar_path_step ==
    /\ inflight.search.pc = "path"
    /\ inflight.search.algorithm = "astar"
    /\ LET f == inflight.search
       IN IF f.st.came_from[f.current[1]] # <<>>
          THEN search_goes_on("path", f.st, <<f.current[1]>> \o f.path,
                              f.st.came_from[f.current[1]])
          ELSE search_return([path |-> <<f.start>> \o f.path,
                              cost |-> f.st.g_score[f.end], raised |-> FALSE])
    /\ UNCHANGED <<graphVars, avlVars, eventVars, app_state, routerVars>>

(***************************************************************************)
(* The handlers balance_network and update_node_load statement by          *)
(* statement, for requests that are served by threads at the same time.    *)
(* priority_heap is the global name: a statement uses the heap that the    *)
(* name is bound to when the statement runs.                               *)
(***************************************************************************)
\* result = load_balancer.balance_network(); cleared = 0; new_heap = PriorityHeap()
balance_started(r) ==
    /\ SetGraph(r.S.g)
    /\ SetAVL(r.S.avl)
    /\ inflight' = [inflight EXCEPT !.balance =
                       [pc |-> "drain", balanced |-> r.balanced,
                        transfers |-> r.transfers, new_heap |-> EmptyPH,
                        cleared |-> 0, old_queue |-> <<>>]]
    /\ UNCHANGED <<eventVars, app_state, routerVars, last>>

balance_begin ==
    /\ inflight.balance.pc = "idle"
    /\ IF some_zero_capacity(root)
       THEN /\ last' = [op |-> "balance", status |-> 500, transfers |-> <<>>,
                        events_cleared |-> 0]
            /\ UNCHANGED <<graphVars, avlVars, eventVars, app_state, routerVars,
                           inflight>>
       ELSE balance_started(lb_balance_network([avl |-> AVL, g |-> Graph]))

\* the popped event p is counted or pushed on new_heap
balance_popped(p) ==
    /\ heap' = p.h.heap
    /\ inflight' =
          IF p.event.event_type = "overload"
          THEN [inflight EXCEPT !.balance.cleared = @ + 1]
          ELSE [inflight EXCEPT !.balance.new_heap =
                  restamp(heap_push(@, p.event.event_type, p.event.node_id,
                                    p.event.data, p.event.priority), p.seq)]
    /\ UNCHANGED <<counter, queue, processed, dropped, graphVars, avlVars,
                   app_state, routerVars, last>>

\* one turn of "while priority_heap.size() > 0"
balance_drain ==
    /\ inflight.balance.pc = "drain"
    /\ heap # <<>>
    /\ balance_popped(heap_pop(PH))

\* priority_heap.size() > 0 is false: the loop is over
balance_drained ==
    /\ inflight.balance.pc = "drain"
    /\ heap = <<>>
    /\ inflight' = [inflight EXCEPT !.balance.pc = "swap"]
    /\ UNCHANGED <<graphVars, avlVars, eventVars, app_state, routerVars, last>>

\* priority_heap = new_heap
balance_swap ==
    /\ inflight.balance.pc = "swap"
    /\ heap' = ranked(inflight.balance.new_heap).heap
    /\ counter' = inflight.balance.new_heap.counter
    /\ inflight' = [inflight EXCEPT !.balance.pc = "snapshot"]
    /\ UNCHANGED <<queue, processed, dropped, graphVars, avlVars, app_state,
                   routerVars, last>>

\* old_queue = list(event_queue.queue)
balance_snapshot ==
    /\ inflight.balance.pc = "snapshot"
    /\ inflight' = [inflight EXCEPT !.balance.pc = "clear",
                                    !.balance.old_queue = queue]
    /\ UNCHANGED <<graphVars, avlVars, eventVars, app_state, routerVars, last>>

\* event_queue.queue.clear()
balance_clear ==
    /\ inflight.balance.pc = "clear"
    /\ queue' = <<>>
    /\ inflight' = [inflight EXCEPT !.balance.pc = "requeue"]
    /\ UNCHANGED <<heap, counter, processed, dropped, graphVars, avlVars,
                   app_state, routerVars, last>>

\* one turn of "for event in old_queue"
balance_requeue ==
    /\ inflight.balance.pc = "requeue"
    /\ inflight.balance.old_queue # <<>>
    /\ IF Head(inflight.balance.old_queue).event_type # "overload"
       THEN /\ queue' = enqueue(EQ, Head(inflight.balance.old_queue)).queue
            /\ dropped' = enqueue(EQ, Head(inflight.balance.old_queue)).dropped
       ELSE UNCHANGED <<queue, dropped>>
    /\ inflight' = [inflight EXCEPT !.balance.old_queue = Tail(@)]
    /\ UNCHANGED <<heap, counter, processed, graphVars, avlVars, app_state,
                   routerVars, last>>

\* the counters of app_state and the response
balance_end ==
    /\ inflight.balance.pc = "requeue"
    /\ inflight.balance.old_queue = <<>>
    /\ app_state' =
         [app_state EXCEPT
            !.total_operations = @ + inflight.balance.balanced,
            !.overloads_resolved = @ + inflight.balance.cleared,
            !.overload_actions = IF inflight.balance.cleared > 0 THEN @ + 1 ELSE @]
    /\ last' = [op |-> "balance", status |-> 200,
                transfers |-> inflight.balance.transfers,
                balanced |-> inflight.balance.balanced,
                events_cleared |-> inflight.balance.cleared]
    /\ inflight' = [inflight EXCEPT !.balance = [pc |-> "idle"]]
    /\ UNCHANGED <<graphVars, avlVars, eventVars, routerVars>>

\* update_node_load up to the test new_load > capacity * 0.9
update_begin(node_id, new_load) ==
    /\ inflight.update.pc = "idle"
    /\ LET found == search_recursive(root, node_id)
       IN IF found = <<>>
          THEN /\ last' = [op |-> "update_load", node_id |-> node_id,
                           load |-> new_load, status |-> 404, pushed |-> 0]
               /\ UNCHANGED <<graphVars, avlVars, inflight>>
          ELSE /\ SetAVL(avl_insert(AVL, node_id,
                                    [found[1] EXCEPT !.current_load = new_load]))
               /\ SetGraph(update_load(Graph, node_id, new_load))
               /\ IF found[1].capacity = 0
                  THEN /\ last' = [op |-> "update_load", node_id |-> node_id,
                                   load |-> new_load, status |-> 500, pushed |-> 0]
                       /\ UNCHANGED inflight
                  ELSE IF new_load * 10 > found[1].capacity * 9
                  THEN /\ inflight' = [inflight EXCEPT !.update =
                              [pc |-> "push", node_id |-> node_id, load |-> new_load,
                               capacity |-> found[1].capacity]]
                       /\ UNCHANGED last
                  ELSE /\ last' = [op |-> "update_load", node_id |-> node_id,
                                   load |-> new_load, status |-> 200, pushed |-> 0]
                       /\ UNCHANGED inflight
    /\ UNCHANGED <<eventVars, app_state, routerVars>>

\* priority_heap.push("overload", node_id, event_payload, Priority.HIGH)
update_push ==
    /\ inflight.update.pc = "push"
    /\ heap' = heap_push(PH, "overload", inflight.update.node_id,
                         overload_payload(inflight.update.load,
                                          inflight.update.capacity), HIGH).heap
    /\ counter' = counter + 1
    /\ inflight' = [inflight EXCEPT !.update.pc = "enqueue"]
    /\ UNCHANGED <<queue, processed, dropped, graphVars, avlVars, app_state,
                   routerVars, last>>

\* event_queue.enqueue(QueueEvent("overload", node_id, event_payload, priority=2))
update_enqueue ==
    /\ inflight.update.pc = "enqueue"
    /\ queue' = enqueue(EQ, QueueEvent("overload", inflight.update.node_id,
                            overload_payload(inflight.update.load,
                                             inflight.update.capacity), 2)).queue
    /\ dropped' = enqueue(EQ, QueueEvent("overload", inflight.update.node_id,
                              overload_payload(inflight.update.load,
                                               inflight.update.capacity), 2)).dropped
    /\ inflight' = [inflight EXCEPT !.update.pc = "count"]
    /\ UNCHANGED <<heap, counter, processed, graphVars, avlVars, app_state,
                   routerVars, last>>

\* app_state["overloads_detected"] += 1 and the response
update_count ==
    /\ inflight.update.pc = "count"
    /\ app_state' = [app_state EXCEPT !.overloads_detected = @ + 1]
    /\ last' = [op |-> "update_load", node_id |-> inflight.update.node_id,
                load |-> inflight.update.load, status |-> 200, pushed |-> 1]
    /\ inflight' = [inflight EXCEPT !.update = [pc |-> "idle"]]
    /\ UNCHANGED <<graphVars, avlVars, eventVars, routerVars>>

\* POST /api/reset.  db.get_session() is called outside the inner try: when
\* it raises, the handler answers 500 and nothing was reset; an exception of
\* the queries is rolled back and logged, and the reset goes on.
reset_system(sink) ==
    IF sink = "none"
    THEN /\ last' = [op |-> "reset", status |-> 500]
         /\ UNCHANGED <<graphVars, avlVars, eventVars, app_state, routerVars,
                        bplus_tree, inflight>>
    ELSE /\ SetGraph(EmptyGraph)
         /\ SetAVL(EmptyAVL)
         /\ SetEvents(EmptyPH, [queue |-> <<>>, processed |-> 0, dropped |-> 0])
         /\ app_state' = InitAppState
         /\ routing_cache' = <<>>
         /\ route_history' = <<>>
         /\ bplus_tree' = EmptyBPlus
         /\ UNCHANGED inflight
         /\ last' = [op |-> "reset", status |-> 200]

\* The counters stay within the bounds of Spec.
CoreBudget ==
    /\ size <= MaxInserts
    /\ node_count <= MaxNodeCount
    /\ Len(lines) <= MaxEdges
    /\ counter <= MaxCounter
    /\ app_state.overloads_detected <= MaxDetected

Next ==
    \/ UNCHANGED bplus_tree /\ \E id \in CoreIds, p \in Profiles, sink \in Sinks :
          create_node(id, p.type, p.capacity, p.efficiency, sink) /\ CoreBudget'
    \/ UNCHANGED bplus_tree /\ \E u \in CoreIds, v \in CoreIds, p \in LineParams :
          AddEdge(u, v, p.distance, p.resistance) /\ CoreBudget'
    \/ UNCHANGED bplus_tree /\ \E id \in CoreIds, l \in Loads : update_node_load(id, l) /\ CoreBudget'
    \/ UNCHANGED bplus_tree /\ get_iot_readings /\ CoreBudget'
    \/ UNCHANGED bplus_tree /\ \E n \in 1..2 : simulate_overload(n) /\ CoreBudget'
    \/ UNCHANGED bplus_tree /\ balance_network /\ CoreBudget'
    \/ UNCHANGED bplus_tree /\ optimize_efficiency /\ CoreBudget'
    \/ \E sink \in Sinks : reset_system(sink)

Spec == Init /\ [][Next]_vars

(***************************************************************************)
(* SpecBuilt: the handlers on a network that was created before            *)
(***************************************************************************)
MaxUpdates == 5        \* AVLTree.size - node_count: the updates of the index
MaxBuiltNodes == 2     \* EnergyGraph.node_count
MaxBuiltEdges == 1     \* number of add_edge calls
MaxBuiltCounter == 2   \* PriorityHeap.counter
MaxBuiltDetected == 2  \* app_state.overloads_detected

\* The calls that created the network: create_node and add_edge.
Networks ==
    { <<[op |-> "node", id |-> "a", profile |-> 1],
        [op |-> "node", id |-> "a_b", profile |-> 2]>>,
      <<[op |-> "node", id |-> "a", profile |-> 1],
        [op |-> "edge", from |-> "a", to |-> "a"]>> }

ProfileOf(k) ==
    CASE k = 1 -> [type |-> "consumer", capacity |-> 100, efficiency |-> 90]
      [] k = 2 -> [type |-> "transformer", capacity |-> 200, efficiency |-> 70]
      [] k = 3 -> [type |-> "consumer", capacity |-> 0, efficiency |-> 90]

\* the graph and the index after the calls
built_call(S, call) ==
    IF call.op = "node"
    THEN [g |-> add_node(S.g, call.id, ProfileOf(call.profile).type,
                         ProfileOf(call.profile).capacity,
                         ProfileOf(call.profile).efficiency, 0),
          avl |-> avl_insert(S.avl, call.id,
                     [capacity |-> ProfileOf(call.profile).capacity,
                      current_load |-> 0,
                      efficiency |-> ProfileOf(call.profile).efficiency,
                      type |-> ProfileOf(call.profile).type])]
    ELSE [g |-> add_edge(S.g, call.from, call.to, 1, 1).g, avl |-> S.avl]

RECURSIVE Built(_, _)
Built(S, calls) ==
    IF calls = <<>> THEN S ELSE Built(built_call(S, Head(calls)), Tail(calls))

\* the application holds the graph S.g and the index S.avl, and nothing else
StartsAs(S) ==
    /\ nodes = S.g.nodes
    /\ edges = S.g.edges
    /\ lines = S.g.lines
    /\ node_count = S.g.node_count
    /\ edge_count = S.g.edge_count
    /\ root = S.avl.root
    /\ size = S.avl.size
    /\ rotations = S.avl.rotations
    /\ heap = <<>>
    /\ counter = 0
    /\ queue = <<>>
    /\ processed = 0
    /\ dropped = 0
    /\ app_state = InitAppState
    /\ routing_cache = <<>>
    /\ route_history = <<>>
    /\ bplus_tree = EmptyBPlus
    /\ inflight = Idle
    /\ last = [op |-> "init"]

InitBuilt ==
    \E calls \in Networks : StartsAs(Built([g |-> EmptyGraph, avl |-> EmptyAVL], calls))

BuiltBudget ==
    /\ size - node_count <= MaxUpdates
    /\ node_count <= MaxBuiltNodes
    /\ Len(lines) <= MaxBuiltEdges
    /\ counter <= MaxBuiltCounter
    /\ app_state.overloads_detected <= MaxBuiltDetected

NextBuilt ==
    \/ UNCHANGED bplus_tree /\ \E id \in CoreIds, p \in Profiles, sink \in Sinks :
          create_node(id, p.type, p.capacity, p.efficiency, sink) /\ BuiltBudget'
    \/ UNCHANGED bplus_tree /\ \E u \in CoreIds, v \in CoreIds, p \in LineParams :
          AddEdge(u, v, p.distance, p.resistance) /\ BuiltBudget'
    \/ UNCHANGED bplus_tree /\ \E id \in CoreIds, l \in Loads : update_node_load(id, l) /\ BuiltBudget'
    \/ UNCHANGED bplus_tree /\ get_iot_readings /\ BuiltBudget'
    \/ UNCHANGED bplus_tree /\ \E n \in 1..2 : simulate_overload(n) /\ BuiltBudget'
    \/ UNCHANGED bplus_tree /\ balance_network /\ BuiltBudget'
    \/ UNCHANGED bplus_tree /\ optimize_efficiency /\ BuiltBudget'

SpecBuilt == InitBuilt /\ [][NextBuilt]_vars

(***************************************************************************)
(* SpecEvents: the events of a network that was created before             *)
(***************************************************************************)
MaxEventUpdates == 2    \* AVLTree.size - node_count
MaxEventCounter == 3    \* PriorityHeap.counter
MaxEventDetected == 2   \* app_state.overloads_detected
MaxDropped == 1         \* EventQueue.dropped

EventsBudget ==
    /\ size - node_count <= MaxEventUpdates
    /\ counter <= MaxEventCounter
    /\ app_state.overloads_detected <= MaxEventDetected
    /\ dropped <= MaxDropped

NextEvents ==
    \/ UNCHANGED bplus_tree /\ \E id \in CoreIds : simulate_failure(id) /\ EventsBudget'
    \/ UNCHANGED bplus_tree /\ \E id \in CoreIds, l \in Loads : update_node_load(id, l) /\ EventsBudget'
    \/ UNCHANGED bplus_tree /\ balance_network /\ EventsBudget'
    \/ UNCHANGED bplus_tree /\ pop_event

SpecEvents == InitBuilt /\ [][NextEvents]_vars

(***************************************************************************)
(* SpecLog: the handlers that push and clear events, and no pop            *)
(***************************************************************************)
NextLog ==
    \/ UNCHANGED bplus_tree /\ \E id \in CoreIds : simulate_failure(id) /\ EventsBudget'
    \/ UNCHANGED bplus_tree /\ \E id \in CoreIds, l \in Loads : update_node_load(id, l) /\ EventsBudget'
    \/ UNCHANGED bplus_tree /\ \E n \in 1..2 : simulate_overload(n) /\ EventsBudget'
    \/ UNCHANGED bplus_tree /\ balance_network /\ EventsBudget'

SpecLog == InitBuilt /\ [][NextLog]_vars

(***************************************************************************)
(* SpecRoute: routes on a network of three nodes                           *)
(***************************************************************************)
MaxRouteEdges == 3     \* number of add_edge calls
MaxRoutes == 3         \* length of EnergyRouter.route_history
MaxRouteUpdates == 1   \* AVLTree.size - node_count
K == 2                 \* the k of find_alternative_routes (3 by default)

RouteNetwork ==
    <<[op |-> "node", id |-> "a", profile |-> 1],
      [op |-> "node", id |-> "a_b", profile |-> 1],
      [op |-> "node", id |-> "b_a", profile |-> 1]>>

\* the lines that are added: weight 1 and weight 3
RouteLines == {[distance |-> 1, resistance |-> 1], [distance |-> 3, resistance |-> 1]}
RoutePairs == {<<"a", "a_b">>, <<"a_b", "b_a">>, <<"a", "b_a">>}
Algorithms == {"dijkstra", "astar"}

InitRoute == StartsAs(Built([g |-> EmptyGraph, avl |-> EmptyAVL], RouteNetwork))

RouteBudget ==
    /\ Len(lines) <= MaxRouteEdges
    /\ Len(route_history) <= MaxRoutes
    /\ size - node_count <= MaxRouteUpdates

\* the handlers run one after the other
NextRoute ==
    \/ /\ UNCHANGED bplus_tree
       /\ inflight = Idle
       /\ \E pair \in RoutePairs, p \in RouteLines :
             AddEdge(pair[1], pair[2], p.distance, p.resistance) /\ RouteBudget'
    \/ /\ UNCHANGED bplus_tree
       /\ inflight = Idle
       /\ \E destination \in NodeIds, algorithm \in Algorithms :
             find_route("a", destination, algorithm) /\ RouteBudget'
    \/ /\ UNCHANGED bplus_tree
       /\ inflight = Idle
       /\ update_node_load("a_b", 90) /\ RouteBudget'
    \/ /\ UNCHANGED bplus_tree
       /\ inflight = Idle
       /\ \E destination \in {"a", "b_a"} : redundant_begin("a", destination, K)
    \/ UNCHANGED bplus_tree /\ redundant_search
    \/ UNCHANGED bplus_tree /\ redundant_disable
    \/ UNCHANGED bplus_tree /\ redundant_restore
    \/ UNCHANGED bplus_tree /\ redundant_enable
    \/ UNCHANGED bplus_tree /\ redundant_end

SpecRoute == InitRoute /\ [][NextRoute]_vars

(***************************************************************************)
(* SpecRace: a balancing and an update of a load at the same time          *)
(***************************************************************************)
MaxRaceUpdates == 3    \* AVLTree.size - node_count
MaxRaceCounter == 2    \* PriorityHeap.counter
MaxRaceDetected == 2   \* app_state.overloads_detected

RaceNetwork == <<[op |-> "node", id |-> "a", profile |-> 1]>>

InitRace == StartsAs(Built([g |-> EmptyGraph, avl |-> EmptyAVL], RaceNetwork))

RaceBudget ==
    /\ size - node_count <= MaxRaceUpdates
    /\ counter <= MaxRaceCounter
    /\ app_state.overloads_detected <= MaxRaceDetected

NextRace ==
    \/ UNCHANGED bplus_tree /\ balance_begin
    \/ UNCHANGED bplus_tree /\ balance_drain
    \/ UNCHANGED bplus_tree /\ balance_drained
    \/ UNCHANGED bplus_tree /\ balance_swap
    \/ UNCHANGED bplus_tree /\ balance_snapshot
    \/ UNCHANGED bplus_tree /\ balance_clear
    \/ UNCHANGED bplus_tree /\ balance_requeue
    \/ UNCHANGED bplus_tree /\ balance_end
    \/ UNCHANGED bplus_tree /\ \E l \in Loads : update_begin("a", l) /\ RaceBudget'
    \/ UNCHANGED bplus_tree /\ update_push /\ RaceBudget'
    \/ UNCHANGED bplus_tree /\ update_enqueue
    \/ UNCHANGED bplus_tree /\ update_count /\ RaceBudget'

SpecRace == InitRace /\ [][NextRace]_vars

(***************************************************************************)
(* SpecAVL: AVLTree.insert, called with keys in any order                  *)
(***************************************************************************)
MaxTreeInserts == 6    \* AVLTree.size (inserts and updates so far)

TreeKeys == {"a", "a_b", "b_a", "c", "d"}
TreeData ==
    {[capacity |-> 100, current_load |-> l, efficiency |-> 90, type |-> "consumer"] :
        l \in {0, 50}}

\* avl_tree.insert(key, data)
tree_insert(key, data) ==
    /\ SetAVL(avl_insert(AVL, key, data))
    /\ last' = [op |-> "insert", key |-> key, data |-> data]
    /\ UNCHANGED <<graphVars, eventVars, app_state, routerVars, inflight>>

\* the thresholds of get_overloaded_nodes: 0 and 0.5, which the loads 0 and
\* 50 of a capacity of 100 meet exactly
Thresholds == {[num |-> 0, den |-> 1], [num |-> 1, den |-> 2]}

\* avl_tree.get_overloaded_nodes(threshold = num / den)
get_overloaded_nodes(num, den) ==
    /\ last' = [op |-> "overloaded", num |-> num, den |-> den,
                overloaded |-> find_overloaded(root, num, den)]
    /\ UNCHANGED <<graphVars, avlVars, eventVars, app_state, routerVars, inflight>>

NextAVL ==
    \/ UNCHANGED bplus_tree /\ \E key \in TreeKeys, data \in TreeData :
          tree_insert(key, data) /\ size' <= MaxTreeInserts
    \/ UNCHANGED bplus_tree /\ \E t \in Thresholds : get_overloaded_nodes(t.num, t.den)

SpecAVL == Init /\ [][NextAVL]_vars

(***************************************************************************)
(* SpecDangling: alternative routes on a graph where add_edge was also     *)
(* called with an endpoint that is not a node                              *)
(***************************************************************************)
MaxDanglingEdges == 3  \* number of add_edge calls

\* "c" is never added as a node
DanglingIds == {"a", "a_b", "b_a", "c"}
DanglingPairs == {<<"a", "a_b">>, <<"a", "b_a">>, <<"a_b", "b_a">>, <<"a_b", "c">>}

InitDangling ==
    StartsAs(Built([g |-> [EmptyGraph EXCEPT !.edges = [n \in DanglingIds |-> <<>>]],
                    avl |-> EmptyAVL], RouteNetwork))

NextDangling ==
    \/ /\ UNCHANGED bplus_tree
       /\ inflight = Idle
       /\ \E pair \in DanglingPairs, p \in RouteLines :
             /\ AddEdge(pair[1], pair[2], p.distance, p.resistance)
             /\ Len(lines') <= MaxDanglingEdges
    \/ /\ UNCHANGED bplus_tree
       /\ inflight = Idle
       /\ \E destination \in {"a_b", "b_a"} : redundant_begin("a", destination, K)
    \/ UNCHANGED bplus_tree /\ redundant_search
    \/ UNCHANGED bplus_tree /\ redundant_disable
    \/ UNCHANGED bplus_tree /\ redundant_restore
    \/ UNCHANGED bplus_tree /\ redundant_enable
    \/ UNCHANGED bplus_tree /\ redundant_end

SpecDangling == InitDangling /\ [][NextDangling]_vars

(***************************************************************************)
(* SpecLoads: the handlers that write loads, with any load in the request  *)
(***************************************************************************)
MaxLoadUpdates == 3    \* AVLTree.size - node_count

\* the loads of the requests: -10 is below zero, 90 and 120 as in Loads
AnyLoads == {-10, 90, 120}

LoadsBudget ==
    /\ size - node_count <= MaxLoadUpdates
    /\ counter <= MaxBuiltCounter
    /\ app_state.overloads_detected <= MaxBuiltDetected

NextLoads ==
    \/ UNCHANGED bplus_tree /\ \E id \in CoreIds, l \in AnyLoads : update_node_load(id, l) /\ LoadsBudget'
    \/ UNCHANGED bplus_tree /\ get_iot_readings /\ LoadsBudget'
    \/ UNCHANGED bplus_tree /\ balance_network /\ LoadsBudget'
    \/ UNCHANGED bplus_tree /\ optimize_efficiency /\ LoadsBudget'

SpecLoads == InitBuilt /\ [][NextLoads]_vars

(***************************************************************************)
(* SpecBPlus: BPlusTree.insert, called with distinct keys in any order     *)
(***************************************************************************)
MaxBPlusInserts == 10  \* number of insert calls

BPlusKeys == 1..10

\* bplus_tree.insert(key, value) with a key that was not inserted before
tree_bplus_insert(key, value) ==
    /\ \A r \in bplus_tree.records : r.key # key
    /\ bplus_tree' = [bplus_insert(bplus_tree, key, value) EXCEPT
                         !.records = @ \cup {[key |-> key, value |-> value]}]
    /\ last' = [op |-> "bplus_insert", key |-> key, value |-> value]
    /\ UNCHANGED <<graphVars, avlVars, eventVars, app_state, routerVars, inflight>>

\* the value of a key is ten times the key
NextBPlus ==
    \E key \in BPlusKeys :
        /\ tree_bplus_insert(key, 10 * key)
        /\ Cardinality(bplus_tree'.records) <= MaxBPlusInserts

SpecBPlus == Init /\ [][NextBPlus]_vars

(***************************************************************************)
(* SpecBalance: one node with two neighbours of the same efficiency        *)
(***************************************************************************)
MaxBalanceUpdates == 6   \* AVLTree.size - node_count
MaxBalanceEdges == 2     \* number of add_edge calls

\* the lines from a_b to its neighbours, added in any order
BalancePairs == {<<"a_b", "a">>, <<"a_b", "b_a">>}

BalanceBudget ==
    /\ size - node_count <= MaxBalanceUpdates
    /\ Len(lines) <= MaxBalanceEdges
    /\ counter <= MaxBuiltCounter
    /\ app_state.overloads_detected <= MaxBuiltDetected

NextBalance ==
    \/ UNCHANGED bplus_tree /\ \E pair \in BalancePairs, p \in LineParams :
          AddEdge(pair[1], pair[2], p.distance, p.resistance) /\ BalanceBudget'
    \/ UNCHANGED bplus_tree /\ \E l \in Loads :
          update_node_load("a_b", l) /\ BalanceBudget'
    \/ UNCHANGED bplus_tree /\ balance_network /\ BalanceBudget'

SpecBalance == InitRoute /\ [][NextBalance]_vars

(***************************************************************************)
(* SpecOptimize: the optimizer on nodes of three efficiencies              *)
(***************************************************************************)
MaxOptimizeNodes == 3     \* EnergyGraph.node_count
MaxOptimizeEdges == 2     \* number of add_edge calls
MaxOptimizeUpdates == 5   \* AVLTree.size - node_count
MaxOptimizeCounter == 1   \* PriorityHeap.counter

\* create_node requests: a efficient, a_b inefficient, b_a in between
OptimizeNodes ==
    { [id |-> "a", capacity |-> 100, efficiency |-> 95],
      [id |-> "a_b", capacity |-> 100, efficiency |-> 70],
      [id |-> "b_a", capacity |-> 500, efficiency |-> 90] }
\* update_load requests: node id and load
OptimizeLoads ==
    { <<"a", 30>>, <<"a", 80>>, <<"a_b", 80>>, <<"a_b", 100>>, <<"b_a", 400>> }

OptimizeBudget ==
    /\ node_count <= MaxOptimizeNodes
    /\ Len(lines) <= MaxOptimizeEdges
    /\ size - node_count <= MaxOptimizeUpdates
    /\ counter <= MaxOptimizeCounter

NextOptimize ==
    \/ UNCHANGED bplus_tree /\ \E n \in OptimizeNodes :
          create_node(n.id, "consumer", n.capacity, n.efficiency, "up")
          /\ OptimizeBudget'
    \/ UNCHANGED bplus_tree /\ \E pair \in RoutePairs, p \in LineParams :
          AddEdge(pair[1], pair[2], p.distance, p.resistance) /\ OptimizeBudget'
    \/ UNCHANGED bplus_tree /\ \E u \in OptimizeLoads :
          update_node_load(u[1], u[2]) /\ OptimizeBudget'
    \/ UNCHANGED bplus_tree /\ optimize_efficiency /\ OptimizeBudget'

SpecOptimize == Init /\ [][NextOptimize]_vars

(***************************************************************************)
(* SpecCache: routes between any two of three nodes, on changing loads     *)
(***************************************************************************)
MaxCacheEdges == 3     \* number of add_edge calls
MaxCacheRoutes == 2    \* length of EnergyRouter.route_history
MaxCacheUpdates == 1   \* AVLTree.size - node_count

\* find_route requests: source
CacheSources == {"a", "a_b"}
\* update_load request: a load that outweighs the weight of a line in the
\* heuristic of astar
CacheLoad == 250

CacheBudget ==
    /\ Len(lines) <= MaxCacheEdges
    /\ Len(route_history) <= MaxCacheRoutes
    /\ size - node_count <= MaxCacheUpdates

NextCache ==
    \/ UNCHANGED bplus_tree /\ \E pair \in RoutePairs, p \in RouteLines :
          AddEdge(pair[1], pair[2], p.distance, p.resistance) /\ CacheBudget'
    \/ UNCHANGED bplus_tree
          /\ \E source \in CacheSources, destination \in NodeIds,
                algorithm \in Algorithms :
                find_route(source, destination, algorithm) /\ CacheBudget'
    \/ UNCHANGED bplus_tree /\ update_node_load("a_b", CacheLoad) /\ CacheBudget'

SpecCache == InitRoute /\ [][NextCache]_vars

(***************************************************************************)
(* SpecSearch: the searches turn by turn, on lines of any weight           *)
(***************************************************************************)
MaxSearchEdges == 2    \* number of add_edge calls
MaxPath == 4           \* length of the list path of a search
MaxDescent == 3        \* how far a distance or g_score goes below zero

\* add_edge requests: weight 1, weight 0 and weight -1
SearchLines ==
    { [distance |-> 1, resistance |-> 1], [distance |-> 1, resistance |-> 0],
      [distance |-> -1, resistance |-> 1] }

\* the numbers that a search holds for the nodes
Scores(f) == IF f.algorithm = "dijkstra" THEN f.st.distances ELSE f.st.g_score

SearchBudget ==
    /\ Len(lines) <= MaxSearchEdges
    /\ inflight.search.pc # "idle" =>
          /\ Len(inflight.search.path) <= MaxPath
          /\ \A n \in DOMAIN nodes :
                Scores(inflight.search)[n] # <<>>
                    => Scores(inflight.search)[n][1] >= 0 - MaxDescent

\* a search that was called goes on
SearchStep ==
    /\ UNCHANGED bplus_tree
    /\ dijkstra_step \/ dijkstra_path_step \/ astar_step \/ astar_path_step
    /\ SearchBudget'

NextSearch ==
    \/ /\ UNCHANGED bplus_tree
       /\ inflight = Idle
       /\ \E pair \in RoutePairs, p \in SearchLines :
             AddEdge(pair[1], pair[2], p.distance, p.resistance) /\ SearchBudget'
    \/ UNCHANGED bplus_tree
          /\ \E algorithm \in Algorithms, end \in NodeIds \cup {"c"} :
                search_begin(algorithm, "a", end)
    \/ UNCHANGED bplus_tree /\ dijkstra_step /\ SearchBudget'
    \/ UNCHANGED bplus_tree /\ dijkstra_path_step /\ SearchBudget'
    \/ UNCHANGED bplus_tree /\ astar_step /\ SearchBudget'
    \/ UNCHANGED bplus_tree /\ astar_path_step /\ SearchBudget'

\* the interpreter goes on with a call that has not returned
SpecSearch == InitRoute /\ [][NextSearch]_vars /\ WF_vars(SearchStep)

(***************************************************************************)
(* SpecObserve: find_route served while find_alternative_routes is under   *)
(* way in another thread                                                   *)
(***************************************************************************)
NextObserve ==
    \/ /\ UNCHANGED bplus_tree
       /\ inflight = Idle
       /\ \E pair \in RoutePairs, p \in RouteLines :
             AddEdge(pair[1], pair[2], p.distance, p.resistance) /\ RouteBudget'
    \/ UNCHANGED bplus_tree
          /\ \E destination \in {"a_b", "b_a"}, algorithm \in Algorithms :
                find_route("a", destination, algorithm) /\ RouteBudget'
    \/ /\ UNCHANGED bplus_tree
       /\ inflight = Idle
       /\ redundant_begin("a", "b_a", K)
    \/ UNCHANGED bplus_tree /\ redundant_search
    \/ UNCHANGED bplus_tree /\ redundant_disable
    \/ UNCHANGED bplus_tree /\ redundant_restore
    \/ UNCHANGED bplus_tree /\ redundant_enable
    \/ UNCHANGED bplus_tree /\ redundant_end

SpecObserve == InitRoute /\ [][NextObserve]_vars

(***************************************************************************)
(* SpecStats: the statistics of a network of three nodes                   *)
(***************************************************************************)
MaxStatsEdges == 2     \* number of add_edge calls
MaxStatsUpdates == 4   \* AVLTree.size - node_count

\* update_load requests: 0.7, 0.95 and 1.2 of capacity 100
StatsLoads == {70, 95, 120}

StatsBudget ==
    /\ Len(lines) <= MaxStatsEdges
    /\ size - node_count <= MaxStatsUpdates
    /\ counter <= MaxBuiltCounter
    /\ app_state.overloads_detected <= MaxBuiltDetected

NextStats ==
    \/ UNCHANGED bplus_tree /\ \E pair \in RoutePairs, p \in LineParams :
          AddEdge(pair[1], pair[2], p.distance, p.resistance) /\ StatsBudget'
    \/ UNCHANGED bplus_tree /\ \E id \in NodeIds, l \in StatsLoads :
          update_node_load(id, l) /\ StatsBudget'
    \/ UNCHANGED bplus_tree /\ balance_network /\ StatsBudget'
    \/ UNCHANGED bplus_tree /\ get_system_stats

SpecStats == InitRoute /\ [][NextStats]_vars

(***************************************************************************)
(* SpecParallel: two lines between the same pair of nodes                  *)
(***************************************************************************)
MaxParallelEdges == 2     \* number of add_edge calls
MaxParallelUpdates == 6   \* AVLTree.size - node_count

\* update_load requests: node id and load
ParallelLoads == { <<"a", 120>>, <<"a_b", 70>>, <<"a_b", 95>> }

ParallelBudget ==
    /\ Len(lines) <= MaxParallelEdges
    /\ size - node_count <= MaxParallelUpdates
    /\ counter <= MaxBuiltCounter
    /\ app_state.overloads_detected <= MaxBuiltDetected

NextParallel ==
    \/ UNCHANGED bplus_tree /\ \E p \in LineParams :
          AddEdge("a", "a_b", p.distance, p.resistance) /\ ParallelBudget'
    \/ UNCHANGED bplus_tree /\ \E u \in ParallelLoads :
          update_node_load(u[1], u[2]) /\ ParallelBudget'
    \/ UNCHANGED bplus_tree /\ balance_network /\ ParallelBudget'
    \/ UNCHANGED bplus_tree /\ optimize_efficiency /\ ParallelBudget'

SpecParallel == InitRoute /\ [][NextParallel]_vars

(***************************************************************************)
(* Properties                                                              *)
(***************************************************************************)
IndexKeys == {e.key : e \in {inorder_recursive(root)[i] :
                                  i \in 1..Len(inorder_recursive(root))}}

RECURSIVE SumGraphLoads(_)
SumGraphLoads(ids) ==
    IF ids = {} THEN 0
    ELSE LET n == CHOOSE x \in ids : TRUE
         IN nodes[n].current_load + SumGraphLoads(ids \ {n})

RECURSIVE SumIndexLoads(_)
SumIndexLoads(entries) ==
    IF entries = <<>> THEN 0
    ELSE Head(entries).data.current_load + SumIndexLoads(Tail(entries))

TotalGraphLoad == SumGraphLoads(DOMAIN nodes)
TotalIndexLoad == SumIndexLoads(inorder_recursive(root))

\* C1: the index and the topology hold the same node ids, and every node has
\* the same current_load, capacity and efficiency in both.
IndexTopologyCoherent ==
    /\ IndexKeys = DOMAIN nodes
    /\ \A n \in DOMAIN nodes :
          /\ search_recursive(root, n) # <<>>
          /\ search_recursive(root, n)[1].current_load = nodes[n].current_load
          /\ search_recursive(root, n)[1].capacity = nodes[n].capacity
          /\ search_recursive(root, n)[1].efficiency = nodes[n].efficiency

\* a balancing moved load between two different nodes
CoherentAfterTransfer ==
    /\ last.op = "balance"
    /\ \E i \in 1..Len(last.transfers) :
          last.transfers[i].from # last.transfers[i].to
    /\ IndexTopologyCoherent

\* C4: a step of Balance or of Optimize leaves the sum of current_load as it
\* was, in the index and in the topology.
LoadConserved ==
    [][last'.op \in {"balance", "optimize"} =>
          /\ TotalGraphLoad' = TotalGraphLoad
          /\ TotalIndexLoad' = TotalIndexLoad]_vars

\* an optimization moved a positive amount of load
OptimizeMovedLoad ==
    /\ last.op = "optimize"
    /\ \E i \in 1..Len(last.transfers) : last.transfers[i].amount > 0

\* the transfer is between two existing, different nodes joined by an active line
ValidTransfer(t) ==
    /\ t.from \in DOMAIN nodes /\ t.to \in DOMAIN nodes
    /\ t.from \in IndexKeys /\ t.to \in IndexKeys
    /\ t.from # t.to
    /\ \E i \in 1..Len(edges[t.from]) :
          /\ edges[t.from][i].neighbor = t.to
          /\ lines[edges[t.from][i].line].status = "active"

\* C5: every transfer of Balance and of Optimize has two existing, distinct
\* endpoints that an active edge connects directly.
TransfersValid ==
    last.op \in {"balance", "optimize"} =>
        \A i \in 1..Len(last.transfers) : ValidTransfer(last.transfers[i])

\* the number of overloads among what the last operation stored
NumOverloaded(l, node_table) ==
    IF l.op = "update_load"
    THEN IF l.node_id \in DOMAIN node_table
            /\ 10 * l.load > 9 * node_table[l.node_id].capacity
         THEN 1 ELSE 0
    ELSE Cardinality({i \in 1..Len(l.readings) :
            /\ l.readings[i].node_id \in DOMAIN node_table
            /\ 10 * l.readings[i].load
                   > 9 * node_table[l.readings[i].node_id].capacity})

\* C7: update_load and a sensor batch push one overload event of severity 2
\* on both queues and add one to overloads_detected for every stored load
\* above 0.9 of the capacity, and nothing for the other loads.
OverloadDetected ==
    [][last'.op \in {"update_load", "readings"} =>
          /\ Len(heap') = Len(heap) + NumOverloaded(last', nodes')
          /\ \A i \in (Len(heap) + 1)..Len(heap') :
                /\ heap'[i].event.event_type = "overload"
                /\ heap'[i].priority = HIGH
          /\ Len(queue') + dropped' = Len(queue) + dropped + NumOverloaded(last', nodes')
          /\ app_state'.overloads_detected
                = app_state.overloads_detected + NumOverloaded(last', nodes')]_vars

PopStable ==
    heap # <<>> =>
        \A j \in 1..Len(heap) :
            \/ heap[heap_min(PH)].priority < heap[j].priority
            \/ /\ heap[heap_min(PH)].priority = heap[j].priority
               /\ heap[heap_min(PH)].seq <= heap[j].seq

\* after a balancing that removed events, a failure was popped while another
\* event of the same priority was pending
PoppedAfterRebuild ==
    /\ last.op = "pop"
    /\ app_state.overload_actions > 0
    /\ \E j \in 1..Len(heap) : heap[j].priority = last.event.priority

\* C3: the result find_route returns is the one a computation on the
\* topology and the loads as they are now returns.
CacheFresh ==
    (last.op = "route" /\ inflight = Idle) =>
        last.result = computed_route(Graph, last.source, last.destination,
                                     last.algorithm)

\* the active entries <<m, i>> of the adjacency lists that lead to n
ActiveInto(n) ==
    {x \in (DOMAIN nodes) \X (1..(2 * Len(lines))) :
        /\ x[2] <= Len(edges[x[1]])
        /\ edges[x[1]][x[2]].neighbor = n
        /\ lines[edges[x[1]][x[2]].line].status = "active"}

\* the least number of a set of numbers, <<>> for the empty set
Least(costs) ==
    IF costs = {} THEN <<>> ELSE <<CHOOSE c \in costs : \A d \in costs : c <= d>>

\* the least cost of a path of at most hops active lines from source to n
RECURSIVE LeastCost(_, _, _)
LeastCost(source, n, hops) ==
    IF hops = 0 THEN (IF n = source THEN <<0>> ELSE <<>>)
    ELSE Least({c[1] : c \in {LeastCost(source, n, hops - 1)} \ {<<>>}}
               \cup {LeastCost(source, x[1], hops - 1)[1] + edges[x[1]][x[2]].weight :
                        x \in {y \in ActiveInto(n) :
                                  LeastCost(source, y[1], hops - 1) # <<>>}})

\* C9: the cost find_route returns for dijkstra is the least cost of a path
\* of active lines from the source to the destination.
DijkstraOptimal ==
    (last.op = "route" /\ inflight = Idle /\ last.algorithm = "dijkstra") =>
        last.result.cost = LeastCost(last.source, last.destination,
                                     Cardinality(DOMAIN nodes))

\* dijkstra itself, on the graph as it is, computes the least cost
DijkstraComputesLeast ==
    \A source \in DOMAIN nodes, destination \in DOMAIN nodes :
        dijkstra(Graph, source, destination).cost
            = LeastCost(source, destination, Cardinality(DOMAIN nodes))

\* the attributes of the entries of u that lead to v
Attributes(u, v, i) ==
    [weight |-> edges[u][i].weight,
     distance |-> lines[edges[u][i].line].distance,
     resistance |-> lines[edges[u][i].line].resistance,
     status |-> lines[edges[u][i].line].status]

EntriesWith(u, v, attrs) ==
    {i \in 1..Len(edges[u]) : edges[u][i].neighbor = v /\ Attributes(u, v, i) = attrs}

\* C10: v is a neighbour of u with some attributes exactly when u is a
\* neighbour of v with the same distance, resistance, weight and status, as
\* often; also while find_alternative_routes has edges disabled.
EdgeSymmetry ==
    \A u \in NodeIds, v \in NodeIds :
        \A i \in 1..Len(edges[u]) :
            edges[u][i].neighbor = v =>
                Cardinality(EntriesWith(u, v, Attributes(u, v, i)))
                    = Cardinality(EntriesWith(v, u, Attributes(u, v, i)))

\* find_alternative_routes is under way and has disabled a line
EdgeDisabledUnderWay ==
    /\ inflight.redundant.pc # "idle"
    /\ \E li \in 1..Len(lines) : lines[li].status = "temp_disabled"
    /\ \E li \in 1..Len(lines) : lines[li].status = "active"

\* how often the event is in the sequence of events
RECURSIVE Occurrences(_, _)
Occurrences(events, event) ==
    IF events = <<>> THEN 0
    ELSE (IF Head(events) = event THEN 1 ELSE 0) + Occurrences(Tail(events), event)

HeapEvents == [i \in 1..Len(heap) |-> heap[i].event]

\* C8: when no handler is under way, no pushed event is lost: an event is
\* pending in both queues or in none, and every detected overload is either
\* pending or was counted as cleared by a balancing.
NoEventLost ==
    (inflight = Idle /\ dropped = 0) =>
        /\ \A i \in 1..Len(heap) :
              Occurrences(HeapEvents, heap[i].event)
                  = Occurrences(queue, heap[i].event)
        /\ \A i \in 1..Len(queue) :
              Occurrences(HeapEvents, queue[i]) = Occurrences(queue, queue[i])
        /\ app_state.overloads_detected
              = app_state.overloads_resolved
                + Cardinality({i \in 1..Len(heap) :
                                 heap[i].event.event_type = "overload"})

\* C11: an enqueue on a full EventLog adds one to dropped and discards the
\* new event; the queued events stay, in their order.
TailDrop ==
    [][(/\ Len(queue) = max_size
        /\ \/ last'.op = "simulate_failure"
           \/ last'.op = "update_load" /\ last'.pushed = 1)
          => (dropped' = dropped + 1 /\ queue' = queue)]_vars

\* the events of the sequence that are not overloads, in their order
RECURSIVE NonOverload(_)
NonOverload(events) ==
    IF events = <<>> THEN <<>>
    ELSE (IF Head(events).event_type # "overload" THEN <<Head(events)>> ELSE <<>>)
         \o NonOverload(Tail(events))

\* the events of the heap entries
EventsOf(entries) == [i \in 1..Len(entries) |-> entries[i].event]

\* C12: a balancing keeps every pending event that is not an overload, in the
\* EventLog in the same order and in the PriorityQueue as often, with its kind,
\* node id, payload and severity; processed and dropped stay as they are.
BalanceKeepsOthers ==
    [][last'.op = "balance" =>
          /\ NonOverload(queue') = NonOverload(queue)
          /\ \A i \in 1..Len(heap) :
                heap[i].event.event_type # "overload" =>
                    /\ Occurrences(EventsOf(heap'), heap[i].event)
                          = Occurrences(EventsOf(heap), heap[i].event)
                    /\ \E j \in 1..Len(heap') :
                          /\ heap'[j].event = heap[i].event
                          /\ heap'[j].priority = heap[i].priority
          /\ processed' = processed
          /\ dropped' = dropped]_vars

\* a balancing cleared an overload and kept a failure in both queues
FailureKeptByBalance ==
    /\ last.op = "balance"
    /\ last.events_cleared > 0
    /\ \E i \in 1..Len(heap) : heap[i].event.event_type = "failure"
    /\ \E i \in 1..Len(queue) : queue[i].event_type = "failure"

\* kind, node id and severity of the events of a sequence
Triples(events) ==
    [i \in 1..Len(events) |->
        <<events[i].event_type, events[i].node_id, events[i].priority>>]

\* C13: the events pending in the EventLog and the events pending in the
\* PriorityQueue are the same multiset of (kind, node id, severity).
QueuesAgree ==
    /\ \A i \in 1..Len(queue) :
          Occurrences(Triples(queue), Triples(queue)[i])
              = Occurrences(Triples(HeapEvents), Triples(queue)[i])
    /\ \A i \in 1..Len(heap) :
          Occurrences(Triples(queue), Triples(HeapEvents)[i])
              = Occurrences(Triples(HeapEvents), Triples(HeapEvents)[i])

\* C14: add_edge with an endpoint that is not a node fails and leaves the
\* adjacency lists, the connection counts and edge_count as they were.
AddEdgeAtomic ==
    [][(/\ last'.op = "add_edge"
        /\ \/ last'.from_node \notin DOMAIN nodes
           \/ last'.to_node \notin DOMAIN nodes)
          => /\ last'.raised
             /\ edges' = edges
             /\ nodes' = nodes
             /\ edge_count' = edge_count]_vars

AddEdgeRejects ==
    [][(/\ last'.op = "add_edge"
        /\ last'.from_node \in DOMAIN nodes
        /\ last'.to_node \in DOMAIN nodes
        /\ \/ last'.from_node = last'.to_node
           \/ \E i \in 1..Len(edges[last'.from_node]) :
                 edges[last'.from_node][i].neighbor = last'.to_node)
          => /\ last'.raised
             /\ edges' = edges
             /\ edge_count' = edge_count]_vars

\* C17: size is the number of keys in the index (an insert of a key that is
\* there replaces the data and leaves size as it is), and the inserted data is
\* what a search of the key returns.
SizeIsKeys ==
    /\ size = Len(inorder_recursive(root))
    /\ last.op = "insert" => search_recursive(root, last.key) = <<last.data>>

\* the height of the subtree, counted from its shape
RECURSIVE TrueHeight(_)
TrueHeight(node) ==
    IF node.nil THEN 0
    ELSE 1 + Max2(TrueHeight(node.left), TrueHeight(node.right))

RECURSIVE KeysOf(_)
KeysOf(node) ==
    IF node.nil THEN {}
    ELSE KeysOf(node.left) \cup {node.key} \cup KeysOf(node.right)

\* at every node the subtrees differ in height by at most 1 and the keys are
\* in search order
RECURSIVE IsAVL(_)
IsAVL(node) ==
    \/ node.nil
    \/ /\ IsAVL(node.left)
       /\ IsAVL(node.right)
       /\ TrueHeight(node.left) - TrueHeight(node.right) \in {-1, 0, 1}
       /\ \A k \in KeysOf(node.left) : KeyLT(k, node.key)
       /\ \A k \in KeysOf(node.right) : KeyLT(node.key, k)

RECURSIVE PathSums(_)
PathSums(path) ==
    IF Len(path) <= 1 THEN {0}
    ELSE {lines[edges[path[1]][i].line].distance
              * (1 + lines[edges[path[1]][i].line].resistance) + rest :
            i \in {j \in 1..Len(edges[path[1]]) :
                      edges[path[1]][j].neighbor = path[2]},
            rest \in PathSums(Tail(path))}

\* C20: the cost of a found route is the sum of distance * (1 + resistance)
\* over the edges of its path.
RouteCostDerived ==
    (last.op = "route" /\ inflight = Idle /\ last.result.found) =>
        /\ last.result.cost # <<>>
        /\ last.result.cost[1] \in PathSums(last.result.path)

\* the line_data dicts with their status left out
Unstatused(ls) ==
    [li \in DOMAIN ls |-> [distance |-> ls[li].distance,
                           resistance |-> ls[li].resistance,
                           capacity |-> ls[li].capacity]]

\* C21: when no find_alternative_routes is under way every line is active, as
\* it was before the call, and the steps of find_alternative_routes change
\* nothing of the graph and the index but the status of lines.
RedundantRestores ==
    [][/\ inflight'.redundant.pc = "idle" =>
             \A li \in DOMAIN lines' : lines'[li].status = "active"
       /\ (inflight.redundant.pc # "idle" \/ inflight'.redundant.pc # "idle") =>
             /\ UNCHANGED <<nodes, edges, node_count, edge_count, avlVars>>
             /\ Unstatused(lines') = Unstatused(lines)]_vars

\* the pairs of nodes that a path joins, one after the other
PathEdges(path) == {{path[i], path[i + 1]} : i \in 1..(Len(path) - 1)}

\* path leads from source to destination over lines that are active
IsActivePath(path, source, destination) ==
    /\ path # <<>>
    /\ path[1] = source
    /\ path[Len(path)] = destination
    /\ \A i \in 1..(Len(path) - 1) :
          \E j \in 1..Len(edges[path[i]]) :
              /\ edges[path[i]][j].neighbor = path[i + 1]
              /\ lines[edges[path[i]][j].line].status = "active"

\* the routes are at most K paths from source to destination, no two the
\* same and no two over a common pair of nodes
DistinctRoutes(routes, source, destination) ==
    /\ Len(routes) <= K
    /\ \A r \in 1..Len(routes) : IsActivePath(routes[r].path, source, destination)
    /\ \A r1 \in 1..Len(routes), r2 \in 1..Len(routes) :
          r1 < r2 => /\ routes[r1].path # routes[r2].path
                     /\ PathEdges(routes[r1].path) \cap PathEdges(routes[r2].path) = {}

\* C22 as stated: the routes that find_alternative_routes(source, destination,
\* K) returns are at most K paths from source to destination over active
\* lines, pairwise distinct and without a common edge, for any source and
\* destination.
RedundantDistinctAny ==
    (last.op = "redundant" /\ last.status = 200 /\ inflight = Idle) =>
        DistinctRoutes(last.routes, last.source, last.destination)

\* C22: for a destination other than the source, the routes that
\* find_alternative_routes returns are at most K paths from source to
\* destination over active lines, pairwise distinct and without a common edge.
RedundantDistinct ==
    (/\ last.op = "redundant" /\ last.status = 200 /\ inflight = Idle
     /\ last.source # last.destination) =>
        DistinctRoutes(last.routes, last.source, last.destination)

TwoRoutesReturned ==
    /\ last.op = "redundant" /\ last.status = 200 /\ inflight = Idle
    /\ last.source # last.destination
    /\ Len(last.routes) = 2

\* the index, the graph, the event queues, the router and the counters are
\* those of a program that was just started
AllEmpty ==
    /\ root = Nil
    /\ \A n \in NodeIds : search_recursive(root, n) = <<>>
    /\ nodes = <<>>
    /\ \A n \in NodeIds : edges[n] = <<>>
    /\ node_count = 0 /\ edge_count = 0
    /\ heap = <<>> /\ queue = <<>>
    /\ routing_cache = <<>> /\ route_history = <<>>
    /\ app_state.overloads_detected = 0
    /\ app_state.overloads_resolved = 0
    /\ app_state.overload_actions = 0

\* C23: after a call of reset_system the index and the graph hold no node
\* and no edge, the event queues, the route cache and the route history are
\* empty and the overload counters are 0.
ResetClears == last.op = "reset" => AllEmpty

\* ResetClears for the calls that are answered with 200
AnsweredResetClears == (last.op = "reset" /\ last.status = 200) => AllEmpty

\* C24: a call of create_node or reset_system is answered with success and
\* has its effect on the structures in memory, whatever the sink does: no
\* call is answered with an error after it changed them, and no reset is
\* left out.
SinkNeverFails ==
    [][/\ last'.op = "create_node" =>
             \/ last'.status = 201
             \/ UNCHANGED <<graphVars, avlVars>>
       /\ last'.op = "reset" => (last'.status = 200 /\ AllEmpty')]_vars

\* every node of the index has a capacity and is at 0.9 of it or below
Healthy ==
    \A i \in 1..Len(inorder_recursive(root)) :
        /\ inorder_recursive(root)[i].data.capacity > 0
        /\ 10 * inorder_recursive(root)[i].data.current_load
              <= 9 * inorder_recursive(root)[i].data.capacity

\* C25: balance_network on a network where no node is above 0.9 of its
\* capacity reports 0 overloaded nodes, 0 balanced and a success rate of 1.0,
\* plans no transfer (so that nothing is added to balancing_history) and
\* leaves the graph and the index, its size included, as they are.
BalanceNoOp ==
    [][(last'.op = "balance" /\ Healthy) =>
          /\ last'.status = 200
          /\ last'.overloaded_nodes = 0
          /\ last'.balanced = 0
          /\ last'.success_rate = 100
          /\ last'.transfers = <<>>
          /\ UNCHANGED <<graphVars, avlVars>>]_vars

HealthyBalanced ==
    /\ last.op = "balance" /\ last.status = 200
    /\ last.overloaded_nodes = 0
    /\ Healthy
    /\ \E n \in DOMAIN nodes : 10 * nodes[n].current_load = 9 * nodes[n].capacity
    /\ lines # <<>>

\* the keys of the index whose load is above num / den of their capacity
KeysAbove(num, den) ==
    {k \in KeysOf(root) :
        den * search_recursive(root, k)[1].current_load
            > num * search_recursive(root, k)[1].capacity}

\* C26: get_overloaded_nodes(threshold) returns the entries of the index whose
\* load is strictly above the threshold, each once, in ascending order of the
\* keys, with the data the index holds for them.
OverloadedExact ==
    last.op = "overloaded" =>
        /\ {last.overloaded[i].key : i \in 1..Len(last.overloaded)}
              = KeysAbove(last.num, last.den)
        /\ Len(last.overloaded) = Cardinality(KeysAbove(last.num, last.den))
        /\ \A i \in 1..Len(last.overloaded), j \in 1..Len(last.overloaded) :
              i < j => KeyLT(last.overloaded[i].key, last.overloaded[j].key)
        /\ \A i \in 1..Len(last.overloaded) :
              last.overloaded[i].data
                  = search_recursive(root, last.overloaded[i].key)[1]

\* a tree of five keys, some of them above the threshold and some exactly at it
OverloadedSomeNotAll ==
    /\ last.op = "overloaded"
    /\ Cardinality(KeysOf(root)) = 5
    /\ Len(last.overloaded) >= 2
    /\ \E k \in KeysOf(root) :
          last.den * search_recursive(root, k)[1].current_load
              = last.num * search_recursive(root, k)[1].capacity

\* C27: every node has a load of 0 or more, in the index and in the graph.
NonNegativeLoad ==
    /\ \A n \in DOMAIN nodes : nodes[n].current_load >= 0
    /\ \A i \in 1..Len(inorder_recursive(root)) :
          inorder_recursive(root)[i].data.current_load >= 0

\* the records with a key from a to b, in ascending order of the keys
Ascending(records) ==
    [i \in 1..Cardinality(records) |->
        CHOOSE r \in records :
            Cardinality({q \in records : q.key < r.key}) = i - 1]

\* C28: after inserts of distinct keys range_query(a, b) returns the inserted
\* records with a <= key <= b, each once and in ascending order, and
\* get_all_records returns all of them in ascending order.
RangeScanExact ==
    /\ \A a \in BPlusKeys, b \in BPlusKeys :
          range_query(bplus_tree, a, b)
              = Ascending({r \in bplus_tree.records : a <= r.key /\ r.key <= b})
    /\ get_all_records(bplus_tree) = Ascending(bplus_tree.records)

\* an internal node was split: the children of the root are internal nodes
InternalSplit ==
    /\ ~bplus_tree.nodes[bplus_tree.root].is_leaf
    /\ ~bplus_tree.nodes[bplus_tree.nodes[bplus_tree.root].children[1]].is_leaf
    /\ last.op = "bplus_insert"

\* x is filled before y: it is more efficient, or as efficient with the
\* smaller id
FilledBefore(x, y) ==
    LET dx == search_recursive(root, x)[1]
        dy == search_recursive(root, y)[1]
    IN \/ dx.efficiency > dy.efficiency
       \/ dx.efficiency = dy.efficiency /\ KeyLT(x, y)

\* the nodes of the index that an active line joins to n
ActiveNeighbours(n) ==
    {edges[n][j].neighbor :
        j \in {i \in 1..Len(edges[n]) :
                  /\ lines[edges[n][i].line].status = "active"
                  /\ edges[n][i].neighbor \in DOMAIN nodes
                  /\ search_recursive(root, edges[n][i].neighbor) # <<>>}}

\* C29: a neighbour receives load from an overloaded node only when every
\* neighbour that is more efficient, or as efficient with a smaller id, is at
\* its capacity after the balancing.
BalanceOrder ==
    (last.op = "balance" /\ last.status = 200) =>
        \A i \in 1..Len(last.transfers) :
            \A x \in ActiveNeighbours(last.transfers[i].from)
                        \ {last.transfers[i].from, last.transfers[i].to} :
                FilledBefore(x, last.transfers[i].to) =>
                    search_recursive(root, x)[1].current_load
                        >= search_recursive(root, x)[1].capacity

\* an active line joins t to n
ActiveLine(S, t, n) ==
    \E j \in 1..Len(S.g.edges[t]) :
        /\ S.g.edges[t][j].neighbor = n
        /\ S.g.lines[S.g.edges[t][j].line].status = "active"

\* The transfers from the i-th on follow the rule.  S is the network before
\* the i-th transfer, P the network when the target of the (i-1)-th transfer
\* was considered.
RECURSIVE FollowsRule(_, _, _, _)
FollowsRule(S, P, transfers, i) ==
    IF i > Len(transfers) THEN TRUE
    ELSE LET t == transfers[i]
             first == i = 1 \/ transfers[i - 1].to # t.to
             C == IF first THEN S ELSE P     \* when t.to was considered
             target == Data(C, t.to)
             neighbor == Data(C, t.from)
             headroom == Data(S, t.to).capacity - Data(S, t.to).current_load
         IN /\ 10 * target.current_load < 6 * target.capacity
            /\ target.efficiency > 85
            /\ ActiveLine(S, t.to, t.from)
            /\ neighbor.efficiency < target.efficiency
            /\ 5 * t.amount = Min2(neighbor.current_load, 5 * headroom)
            /\ FollowsRule(apply_transfer(S, t), C, transfers, i + 1)

\* T(cap 100, load 30, eff 0.95) and N(cap 100, load 80, eff 0.70) are the
\* nodes, and one line joins them
TwoNodeExample ==
    /\ DOMAIN nodes = {"a", "a_b"}
    /\ search_recursive(root, "a") # <<>>
    /\ search_recursive(root, "a_b") # <<>>
    /\ search_recursive(root, "a")[1].capacity = 100
    /\ search_recursive(root, "a")[1].current_load = 30
    /\ search_recursive(root, "a")[1].efficiency = 95
    /\ search_recursive(root, "a_b")[1].capacity = 100
    /\ search_recursive(root, "a_b")[1].current_load = 80
    /\ search_recursive(root, "a_b")[1].efficiency = 70
    /\ Len(lines) = 1
    /\ Len(edges["a"]) = 1
    /\ edges["a"][1].neighbor = "a_b"

\* C30: every transfer of the optimizer goes into a node that had utilization
\* < 0.6 and efficiency > 0.85 when it was considered, comes from a less
\* efficient neighbour over an active line, and moves min(0.2 * load of the
\* neighbour, headroom left in the target); for T(100, 30, 0.95) and
\* N(100, 80, 0.70) joined by one line the only transfer is 16 from N to T.
OptimizeTransferRule ==
    [][last'.op = "optimize" =>
          /\ FollowsRule([avl |-> AVL, g |-> Graph], [avl |-> AVL, g |-> Graph],
                         last'.transfers, 1)
          /\ TwoNodeExample =>
                /\ Len(last'.transfers) = 1
                /\ last'.transfers[1].from = "a_b"
                /\ last'.transfers[1].to = "a"
                /\ last'.transfers[1].amount = 16]_vars

\* the optimizer moved 16 from N to T, and nothing else
SixteenMoved ==
    /\ last.op = "optimize"
    /\ Len(last.transfers) = 1
    /\ last.transfers[1].from = "a_b"
    /\ last.transfers[1].to = "a"
    /\ last.transfers[1].amount = 16
    /\ search_recursive(root, "a")[1].current_load = 46
    /\ search_recursive(root, "a_b")[1].current_load = 64

\* C40: a route that find_route returns as found leads from the source of the
\* request to its destination (a cached result is only returned for the
\* source, destination and algorithm it was computed for).
RouteEndpoints ==
    (last.op = "route" /\ inflight = Idle /\ last.result.found) =>
        /\ last.result.path[1] = last.source
        /\ last.result.path[Len(last.result.path)] = last.destination
        /\ last.result.algorithm = last.algorithm

\* the sums of the weights of active lines that join the nodes of the path,
\* one after the other
RECURSIVE WeightSums(_)
WeightSums(path) ==
    IF Len(path) <= 1 THEN {0}
    ELSE {edges[path[1]][i].weight + rest :
            i \in {j \in 1..Len(edges[path[1]]) :
                      /\ edges[path[1]][j].neighbor = path[2]
                      /\ lines[edges[path[1]][j].line].status = "active"},
            rest \in WeightSums(Tail(path))}

\* the result A of astar is found exactly when the result D of dijkstra is;
\* its path leads from source to destination over active lines, its cost is
\* the sum of the weights of the path and not below the cost of D
RouteAgrees(A, D, source, destination) ==
    /\ A.found <=> D.found
    /\ A.found =>
          /\ IsActivePath(A.path, source, destination)
          /\ A.cost # <<>>
          /\ A.cost[1] \in WeightSums(A.path)
          /\ D.cost # <<>>
          /\ A.cost[1] >= D.cost[1]

\* C31: the route find_route returns for astar is found exactly when
\* find_optimal_route answers found for dijkstra; it leads from the source to
\* the destination over active lines, its cost is the sum of the weights of
\* its lines and at least the cost of the dijkstra route.
AStarPreserves ==
    (last.op = "route" /\ inflight = Idle /\ last.algorithm = "astar") =>
        RouteAgrees(last.result,
                    find_optimal_route(Router, Graph, last.source,
                                       last.destination, "dijkstra").result,
                    last.source, last.destination)

\* astar and dijkstra themselves, on the graph as it is, agree in that way
AStarAgreesOnGraph ==
    \A source \in DOMAIN nodes, destination \in DOMAIN nodes :
        RouteAgrees(computed_route(Graph, source, destination, "astar"),
                    computed_route(Graph, source, destination, "dijkstra"),
                    source, destination)

\* astar answered with a route that costs more than the one of dijkstra
AStarCostsMore ==
    /\ last.op = "route" /\ last.algorithm = "astar" /\ last.result.found
    /\ computed_route(Graph, last.source, last.destination, "dijkstra").found
    /\ last.result.cost[1]
          > computed_route(Graph, last.source, last.destination, "dijkstra").cost[1]

NoNegativeWeight ==
    \A n \in DOMAIN edges : \A i \in 1..Len(edges[n]) : edges[n][i].weight >= 0

\* a search that was called on lines of weight zero or more returns
RouteTerminatesNonNegative ==
    (inflight.search.pc # "idle" /\ NoNegativeWeight)
        ~> (inflight.search.pc = "idle")

\* what a search returns turn by turn is what dijkstra and astar return
SearchIsTheFunction ==
    (last.op = "search" /\ NoNegativeWeight) =>
        last.result = IF last.algorithm = "dijkstra"
                      THEN dijkstra(Graph, last.source, last.destination)
                      ELSE astar(Graph, last.source, last.destination)

\* the graph with every line active: the topology before and after a call of
\* find_alternative_routes
Restored(g) ==
    [g EXCEPT !.lines = [li \in DOMAIN g.lines |->
                            [g.lines[li] EXCEPT !.status = "active"]]]

\* what find_route answers and caches on the graph g: the preferred algorithm
\* first, then the other one
RouteOn(g, source, destination, preferred) ==
    LET main == find_optimal_route(Router, g, source, destination, preferred)
    IN [result |-> main.result,
        routing_cache |->
            find_optimal_route(main.R, g, source, destination,
                IF preferred = "dijkstra" THEN "astar"
                ELSE "dijkstra").R.routing_cache]

\* C33: a find_route that is served while find_alternative_routes is under
\* way answers, and caches, what it would on the topology with every line
\* active, as it was before that call and is after it.
DisablingUnobserved ==
    [][(/\ last'.op = "route"
        /\ inflight' = inflight
        /\ inflight.redundant.pc # "idle")
          => /\ last'.result
                   = RouteOn(Restored(Graph), last'.source, last'.destination,
                             last'.algorithm).result
             /\ routing_cache'
                   = RouteOn(Restored(Graph), last'.source, last'.destination,
                             last'.algorithm).routing_cache]_vars

\* C34: the overloaded_nodes of the statistics is the number of nodes whose
\* load is above 0.9 of their capacity.
OverloadedCounted ==
    last.op = "stats" =>
        last.network.overloaded_nodes
            = Cardinality({n \in DOMAIN nodes :
                              10 * nodes[n].current_load > 9 * nodes[n].capacity})

\* an active line ends at n
HasActiveEdge(n) ==
    \E i \in 1..Len(edges[n]) : lines[edges[n][i].line].status = "active"

\* C35: the isolated_nodes of the statistics is the number of nodes at which
\* no active line ends.
IsolatedCounted ==
    last.op = "stats" =>
        last.network.isolated_nodes
            = Cardinality({n \in DOMAIN nodes : ~HasActiveEdge(n)})

\* the overload events that are pending in the PriorityHeap
PendingOverloads ==
    Cardinality({i \in 1..Len(heap) : heap[i].event.event_type = "overload"})

\* C36: between the handlers, overloads_detected - overloads_resolved is the
\* number of overload events in the PriorityHeap, overloads_resolved is at
\* most overloads_detected, and a balancing adds to overloads_resolved the
\* number of overload events it removed.
OverloadAccounting ==
    /\ [](/\ app_state.overloads_detected - app_state.overloads_resolved
                = PendingOverloads
          /\ app_state.overloads_resolved <= app_state.overloads_detected)
    /\ [][last'.op = "balance" =>
             /\ PendingOverloads' = 0 \/ last'.status = 500
             /\ app_state'.overloads_resolved
                   = app_state.overloads_resolved
                       + (PendingOverloads - PendingOverloads')]_vars

\* a balancing has cleared an overload, a failure is still pending and a new
\* overload was detected since
PendingAfterBalance ==
    /\ app_state.overloads_resolved >= 1
    /\ PendingOverloads >= 1
    /\ \E i \in 1..Len(heap) : heap[i].event.event_type = "failure"

\* the load of node n in the node table is above 0.9 of its capacity
Above(n, node_table) ==
    10 * node_table[n].current_load > 9 * node_table[n].capacity

\* C37: a balancing puts no node above 0.9 of its capacity that was not above
\* it before, and a node that was above it before receives no load.
NoNewOverload ==
    [][(last'.op = "balance" /\ last'.status = 200) =>
          \A n \in DOMAIN nodes :
             /\ Above(n, nodes') => Above(n, nodes)
             /\ Above(n, nodes) =>
                   nodes'[n].current_load <= nodes[n].current_load]_vars

\* C38: a node that is within its capacity before a balancing or an
\* optimization and receives a transfer in it is within its capacity after it.
ReceiversWithinCapacity ==
    [][(last'.op \in {"balance", "optimize"} /\ last'.status = 200) =>
          \A i \in 1..Len(last'.transfers) :
             LET n == last'.transfers[i].to
             IN nodes[n].current_load <= nodes[n].capacity
                   => nodes'[n].current_load <= nodes'[n].capacity]_vars

\* the sum of current_load * efficiency over the nodes of the index, in hundredths
RECURSIVE WeightedLoad(_)
WeightedLoad(node) ==
    IF node.nil THEN 0
    ELSE node.data.current_load * node.data.efficiency
            + WeightedLoad(node.left) + WeightedLoad(node.right)

\* C39: an optimization does not lower the sum of current_load * efficiency
\* over the nodes; the total_efficiency_gain it reports is not negative and
\* is that increase; for T(load 30, eff 0.95) and N(load 80, eff 0.70) it is
\* 16 * (0.95 - 0.70) = 4.0.
OptimizeGain ==
    [][last'.op = "optimize" =>
          /\ WeightedLoad(root') >= WeightedLoad(root)
          /\ last'.status = 200 =>
                /\ last'.total_efficiency_gain >= 0
                /\ WeightedLoad(root') - WeightedLoad(root)
                      = last'.total_efficiency_gain
          /\ TwoNodeExample => last'.total_efficiency_gain = 400]_vars

\* the optimizer reported the gain of 4.0 of the example
GainOfFour ==
    /\ last.op = "optimize"
    /\ last.status = 200
    /\ last.total_efficiency_gain = 400
    /\ last.optimizations_performed = 1
    /\ WeightedLoad(root) = 46 * 95 + 64 * 70
====
